---- MODULE Spec2Model ----
(***************************************************************************)
(* CartoTUI (ascii_map): the pipeline coordinator of ui/map_control.py.    *)
(* Two threads: the interactive loop (prompt_toolkit event loop, which     *)
(* calls create_content, pan, zoom and shutdown one after another) and the *)
(* render worker (MapControl._render_worker).  They share two              *)
(* queue.Queue objects, a threading.Event and the MapState object.         *)
(*                                                                         *)
(* Every queue.Queue method call is one atomic step taken while the        *)
(* queue's mutex is free (the library holds the mutex for the length of    *)
(* the call).  A `with q.mutex:` block of the program is two steps, the    *)
(* acquire and the body with the release, so that the mutex is visibly     *)
(* held between them.                                                      *)
(*                                                                         *)
(* Latitude and longitude are integers in micro-degrees.                   *)
(***************************************************************************)
EXTENDS Integers, Sequences, FiniteSets, TLC

\* ------------------------------------------------------------------ bounds

\* Number of create_content / pan / zoom calls in one behaviour (shutdown is
\* always allowed on top of them).
MaxOps == 2

\* Jobs are numbered 1, 2, ... in the order of their submission; from the
\* MaxJobs-th on they all carry the number MaxJobs.
MaxJobs == 6

\* Zoom levels of the configuration the model runs with (map.min_zoom .. map.max_zoom).
MaxZoomLevel == 1

\* Cell sizes of the jobs in the pixel-size specification SpecPx.
MaxPxCols == 160
MaxPxRows == 80

\* Zoom levels of the tile indices the tile-cache specifications ask for
\* (0 .. MaxTileZoom; x and y run from -1 to 2^z, one past the grid each way).
MaxTileZoom == 1

\* Number of TileCache calls in one behaviour.
MaxCalls == 2

\* composite_from_tiles is called at zoom 0 .. MaxCompZoom for outputs up to
\* MaxSpan tiles (and a pixel) wide and high.
MaxCompZoom == 1
MaxSpan == 2

\* get_tile_with_overzoom is called with overzoom_levels in 0 .. MaxLevels
\* for indices of zoom 0 .. MaxLevels.
MaxLevels == 2

\* Indices up to OutMargin columns or rows outside the grid are looked up.
OutMargin == 2

\* NThreads threads call get_tile_exact for one index, MaxLookups times each.
NThreads == 2
MaxLookups == 2

\* TileCache is built with retries in 0 .. MaxRetries, and one session.get
\* follows up to MaxRedirects redirects.
MaxRetries == 1
MaxRedirects == 1

\* The cache directories prune is run on: up to MaxFiles files of size
\* 0..MaxFileSize with modification times 1..MaxMtime, under a budget of
\* 1..MaxBudget (sizes and budget in one unit, say MiB).
MaxFiles == 3
MaxFileSize == 2
MaxMtime == 2
MaxBudget == 4

\* Cell sizes of the frames the render backends are asked for on their own,
\* and the width and height in pixels of the images they are handed.
MaxRenderCols == 2
MaxRenderRows == 2
MaxImgSide == 3

\* ------------------------------------------------------- program constants

ReqMaxSize == 2
ResMaxSize == 1
DefaultMaxCompositePx == 1200
MinPx == 64
PxPerCol == 8
PxPerRow == 16
MinZoomLevel == 0
\* geodesy.MAX_LAT = 85.05112878 degrees, in whole micro-degrees
MAX_LAT == 85051128
\* 0.1 degree, the pan step at zoom 0
PanStepZ0 == 100000
HalfTurn == 180000000
\* -179.999999 degrees
WrapFloor == -179999999
\* 256 degrees, where the distance between neighbouring floats doubles
FloatBinade == 256000000
\* composite.py: tile_size = 256
TileSize == 256
\* config.py: map.overzoom = 1, the overzoom_levels the compositor passes on
OverzoomLevels == 1

\* ------------------------------------------------------------------- state

VARIABLES
    req_q,          \* MapControl._req_q: the pending items, oldest first
    res_q,          \* MapControl._res_q: the posted Frames, oldest first
    reqMutex,       \* holder of _req_q.mutex: "free", "ui" or "worker"
    resMutex,       \* holder of _res_q.mutex
    stop,           \* MapControl._stop (threading.Event)
    last_width,     \* MapControl._last_width
    last_height,    \* MapControl._last_height
    last_frame,     \* MapControl._last_frame (NoFrame for None)
    lat, lon, z,    \* MapState.lat, .lon (micro-degrees), .z
    last_render_ms, \* MapState.last_render_ms: 0, or 1 once a render was timed
    upc,            \* position of the interactive loop
    uw, uh,         \* create_content's width, height after clamping
    ulatest,        \* _drain_results' local `frame`
    uitem,          \* the item _enqueue / shutdown is about to put
    ucont,          \* where the interactive loop continues after the put
    content,        \* the UIContent last returned by create_content
    wpc,            \* position of the render worker
    wjob,           \* the worker's local `job`
    wpx,            \* the worker's locals (px_w, px_h)
    wimg,           \* the worker's local `img`
    wframe,         \* the worker's local `frame`
    nOps,           \* history: number of create_content / pan / zoom calls so far
    nSubmitted,     \* history: number of jobs put into _req_q so far
    dequeued,       \* history: id of the job the worker's last get returned, and
                    \*          the number of jobs submitted by then
    superseded,     \* history: ids of the jobs cleared from _req_q before any get
    lastPosted,     \* history: id of the job whose Frame the last post carried
    discarded,      \* history: ids of the Frames cleared from _res_q unconsumed
    owed,           \* history: id of a job whose compositing raised and whose
                    \*          Frame is not posted yet (0: none)
    dropped,        \* history: the puts that hit queue.Full ("req" / "res")
    ccLog           \* history: what the last create_content call saw and did

qVars == <<req_q, res_q, reqMutex, resMutex, stop>>
ctlVars == <<last_width, last_height, last_frame>>
stateVars == <<lat, lon, z, last_render_ms>>
uiVars == <<upc, uw, uh, ulatest, uitem, ucont, content>>
workerVars == <<wpc, wjob, wpx, wimg, wframe>>
histVars == <<nOps, nSubmitted, dequeued, superseded, lastPosted, discarded,
              owed, dropped, ccLog>>
pipeVars == <<qVars, ctlVars, stateVars, uiVars, workerVars, histVars>>

\* The tile cache of cache.py (TileCache), used by the worker's compositing.
\* A behaviour follows the files of one tile index and of its parent.
VARIABLES
    tile,           \* the index (z, x, y) the calls of this behaviour are about
    files,          \* the .png of each followed index: NoFile, CorruptFile
                    \* (a file that does not decode) or ValidFile(raster)
    dirs,           \* the <<z, x>> directories that exist under root_dir
    tcall,          \* the TileCache method in progress ("none", "exact", "overzoom")
    ozpc,           \* get_tile_with_overzoom: "none", "self" (line 131) or "parent" (line 142)
    levels,         \* get_tile_with_overzoom's overzoom_levels (0 outside it)
    ozstep,         \* its loop variable `step`, 0 at line 131; kept after the
                    \* return until the next call
    targ,           \* (z, x, y) of the get_tile_exact in progress
    tpc,            \* position inside get_tile_exact
    timg,           \* get_tile_exact's local `img` (line 114)
    tret,           \* what the last finished call gave its caller (cleared
                    \* when the disk changes behind the cache's back)
    nCalls,         \* history: number of TileCache calls begun
    persisted,      \* history: a get_tile_exact of the tile has succeeded
                    \*          through the network and no file of it was
                    \*          removed or damaged since
    tlog,           \* history: what the call in progress (or the last one) did
    retries,        \* __init__'s retries: Retry(total, connect, read), lines 62-65
    hget            \* the session.get of line 112 while it runs: HTTP attempts
                    \* made for the request in hand (natt), redirects followed
                    \* (hops), attempts made in all (http); and how the last
                    \* attempt ended (last)

cacheVars == <<tile, files, dirs, tcall, ozpc, levels, ozstep, targ, tpc, timg,
               tret, nCalls, persisted, tlog, retries, hget>>

\* TileCache.prune runs over the whole cache directory.
VARIABLES
    pfiles,         \* the .png files in os.walk order: size, mtime, and
                    \* whether the file is still there
    max_bytes,      \* prune's argument
    watermark,      \* prune's argument, in hundredths
    ppc,            \* position inside prune
    total,          \* prune's local `total`
    target,         \* prune's local `target`
    todo,           \* prune's sorted `files`, from the file the loop is at
    gone,           \* history: the files prune has unlinked, in order
    pfault          \* history: the file whose stat or unlink raised, and in
                    \*          which part of prune

pruneVars == <<pfiles, max_bytes, watermark, ppc, total, target, todo, gone,
               pfault>>


\* One call of a render backend (rendering/*.py) on its own.
VARIABLES
    mode,           \* the backend: "ascii", "quadrant" or "braille"
    rimg,           \* the image handed in: w, h and pix[y][x] = (r, g, b)
    term_w, term_h, \* the cell size asked for
    use_color,      \* the color flag
    palette,        \* the glyph ramp, as its length
    rpc,            \* "idle", "call" or "done"
    rframe,         \* the FrameFrag returned (the backend's `frame`)
    rbackend        \* the class of the backend whose render ran ("none"
                    \* before the call)

rendVars == <<mode, rimg, term_w, term_h, use_color, palette, rpc, rframe,
              rbackend>>

\* Threads calling get_tile_exact for one index at the same time: the file
\* of that index and TileCache._lock (cache.py, lines 74 and 99-120).
VARIABLES
    lpc,            \* each thread's position inside get_tile_exact
    lock,           \* the thread holding self._lock, 0 when it is free
    lfile,          \* the index's file: "none", "corrupt" or "valid"
    lret,           \* what each thread's last call returned
    lcalls,         \* history: the number of calls each thread has begun
    lwriter         \* history: the thread whose save made the file, 0 when
                    \*          the file was there before any call

lockVars == <<lpc, lock, lfile, lret, lcalls, lwriter>>

\* One call of composite_from_tiles (composite.py) on its own, over a cache
\* that answers each index with a raster or with None.
VARIABLES
    cpc,            \* "idle", "call" or "done"
    cin,            \* the arguments as lines 48-50 see them: z, (tx, ty), the
                    \* pixel offsets (xt - tx) * 256 and (yt - ty) * 256 of the
                    \* center inside its tile, width_px and height_px
    cmiss,          \* the indices the cache has nothing for
    canvas,         \* what `base` holds in each tile-sized cell (dx, dy):
                    \* Black, or the index whose raster was pasted there
    creq,           \* history: the index passed to the cache for each cell,
                    \*          NoTile where none was
    cbox,           \* the crop box (left, top, right, bottom) of line 85
    cout            \* the image returned

compVars == <<cpc, cin, cmiss, canvas, creq, cbox, cout>>

\* The accesses of the two threads to the fields of the MapState object
\* (ui/state.py) and its _lock, one access at a time.
VARIABLES
    slock,          \* holder of MapState._lock: "free", "ui" or "worker"
    sop,            \* the handler each thread is in ("none" between handlers)
    spos,           \* the step of that handler the thread is at
    sacc            \* history: the last access to a field: by whom, to which
                    \*          field, read or write, at which line, and
                    \*          whether the thread held _lock

accVars == <<slock, sop, spos, sacc>>

vars == <<pipeVars, cacheVars, pruneVars, rendVars, lockVars, compVars, accVars>>

\* What the actions of one component leave alone.
offPipe == <<cacheVars, pruneVars, rendVars, lockVars, compVars, accVars>>
offCache == <<pipeVars, pruneVars, rendVars, lockVars, compVars, accVars>>
offPrune == <<pipeVars, cacheVars, rendVars, lockVars, compVars, accVars>>
offRender == <<pipeVars, cacheVars, pruneVars, lockVars, compVars, accVars>>
offLock == <<pipeVars, cacheVars, pruneVars, rendVars, compVars, accVars>>
offComp == <<pipeVars, cacheVars, pruneVars, rendVars, lockVars, accVars>>
offAcc == <<pipeVars, cacheVars, pruneVars, rendVars, lockVars, compVars>>

\* ------------------------------------------------------------ plain values

Max(a, b) == IF a >= b THEN a ELSE b
Min(a, b) == IF a <= b THEN a ELSE b

Pow2(n) == IF n = 0 THEN 1 ELSE IF n = 1 THEN 2 ELSE IF n = 2 THEN 4
           ELSE IF n = 3 THEN 8 ELSE IF n = 4 THEN 16 ELSE 32

\* The tuple (w, h, lat, lon, z) put into _req_q; id is a history tag.
Job(id, w, h, la, lo, zz) == [id |-> id, w |-> w, h |-> h, lat |-> la, lon |-> lo, z |-> zz]

\* The None that shutdown puts into _req_q.
NoneJob == Job(0, 0, 0, 0, 0, 0)

\* Frame(width, height, lines_frag); id is the id of the job it was rendered for.
Frame(id, w, h, lines) == [id |-> id, width |-> w, height |-> h, lines_frag |-> lines]

\* _last_frame = None, and _drain_results returning None.
NoFrame == Frame(0, 0, 0, <<>>)

\* A PIL image: its pixel size and whether it is the solid-black placeholder.
Image(w, h, black) == [w |-> w, h |-> h, black |-> black]
NoImage == Image(0, 0, FALSE)

NoContent == [line_count |-> 0, lines |-> <<>>, cursor |-> <<0, 0>>]
NoLog == [w |-> 0, h |-> 0, held |-> NoFrame, job |-> NoneJob,
          lat |-> 0, lon |-> 0, z |-> 0]
NoDequeue == [id |-> 0, latest |-> 0]

\* The ids of the jobs (not the None of shutdown) in a queue.
Ids(q) == {q[i].id : i \in 1..Len(q)} \ {0}

\* ------------------------------------------------------------- MapState

clamp_lat(la) == Max(Min(la, MAX_LAT), -MAX_LAT)

\* The result of a float operation.  A micro-degree stands for the distance
\* between neighbouring floats below 256 degrees; from 256 degrees on the
\* floats are twice as far apart, and a result between two of them goes to
\* the nearer one, half way to the one with the even mantissa.
RoundF(v) ==
    LET a == IF v < 0 THEN -v ELSE v
        r == IF a < FloatBinade \/ a % 2 = 0 THEN a
             ELSE IF ((a - 1) \div 2) % 2 = 0 THEN a - 1 ELSE a + 1
    IN  IF v < 0 THEN -r ELSE r

\* Python's x % y on floats with y > 0: fmod(x, y) is exact and has the sign
\* of x; a negative remainder has y added to it, a float addition.
FloatMod(x, y) ==
    IF x >= 0 \/ x % y = 0 THEN x % y ELSE RoundF(y - ((-x) % y))

\* _wrap_lon: ((lon + 180.0) % 360.0) - 180.0, and -179.999999 for -180
wrap_lon(lo) ==
    LET l == RoundF(FloatMod(RoundF(lo + HalfTurn), 2 * HalfTurn) - HalfTurn)
    IN  IF l <= -HalfTurn THEN WrapFloor ELSE l

ClampZoom(zz) == Max(MinZoomLevel, Min(MaxZoomLevel, zz))

\* 0.1 * 2 ** (-z) degrees
PanStep(zz) == PanStepZ0 \div Pow2(zz)

\* The configured start center (map.center_lat, map.center_lon): one pan step
\* away from the latitude limit and from the antimeridian.
StartCenters == { <<85000000, 179950000>> }

\* Configured centers (config.py keeps center_lon in [-180, 180]) a pan step
\* and a micro-degree or two east of the antimeridian, and the center above.
StateCenters ==
    StartCenters \cup { <<0, -179900001>>, <<0, -179900002>> }

\* Arguments of set_center: latitudes in and beyond the band, longitudes on
\* and around the antimeridian and a turn and a half away.
CenterArgs ==
    {-90000000, 0, 90000000}
    \X {-180000002, -180000001, -180000000, 0, 180000000, 540000000}

\* Arguments of set_zoom, one beyond the levels each way.
ZoomArgs == (MinZoomLevel - 1)..(MaxZoomLevel + 1)

\* The (dx, dy) of the arrow keys and toolbar buttons.
PanVectors == { <<0, -1>>, <<0, 1>>, <<-1, 0>>, <<1, 0>> }
ZoomDeltas == { 1, -1 }

\* viewport.crosshair_char
Crosshair == "+"

\* ------------------------------------------------------------- text rows

Spaces(n) == [i \in 1..n |-> " "]

\* "".join(text for (_style, text) in row)
RECURSIVE JoinRuns(_)
JoinRuns(row) ==
    IF row = <<>> THEN <<>> ELSE Head(row)[2] \o JoinRuns(Tail(row))

\* Mutant: the short row is not padded.
FitWidthNoPad(text, width) == SubSeq(text, 1, Min(Len(text), width))

\* row_text.ljust(width) when shorter, row_text[:width] otherwise
FitWidth(text, width) ==
    IF Len(text) < width THEN text \o Spaces(width - Len(text))
    ELSE SubSeq(text, 1, width)

\* MapControl._normalize_lines
normalize_lines(frame, width, height) ==
    [y \in 1..height |->
        IF y <= Len(frame.lines_frag) /\ frame.lines_frag[y] # <<>>
        THEN << <<"", FitWidth(JoinRuns(frame.lines_frag[y]), width)>> >>
        ELSE << <<"", Spaces(width)>> >>]

\* The crosshair overlay of create_content: column chx, row chy, counted from 0.
Overlay(lines, width, height) ==
    LET chx == width \div 2
        chy == height \div 2
        row_text == lines[chy + 1][1][2]
    IN  IF Crosshair # "" /\ 0 <= chy /\ chy < height /\ 0 <= chx /\ chx < width
        THEN [lines EXCEPT ![chy + 1] =
                << <<"", SubSeq(row_text, 1, chx) \o <<Crosshair>>
                         \o SubSeq(row_text, chx + 2, Len(row_text))>> >>]
        ELSE lines

\* Mutant: width and height swapped.
blank_content_swapped(width, height) ==
    [line_count |-> width,
     lines |-> [y \in 1..width |-> << <<"", Spaces(height)>> >>],
     cursor |-> <<0, 0>>]

\* MapControl._blank_content: get_line(i) for i in 0 .. line_count - 1
blank_content(width, height) ==
    [line_count |-> height,
     lines |-> [y \in 1..height |-> << <<"", Spaces(width)>> >>],
     cursor |-> <<0, 0>>]

\* The UIContent create_content builds from a held Frame.
frame_content(frame, width, height) ==
    [line_count |-> height,
     lines |-> Overlay(normalize_lines(frame, width, height), width, height),
     cursor |-> <<width \div 2, height \div 2>>]

\* ---------------------------------------------------------- worker values

\* A width that is capped but has no floor.
PxWNoFloor(w) == Min(DefaultMaxCompositePx, w * PxPerCol)

\* min(max_px, max(64, int(w * 8))) and min(max_px, max(64, int(h * 16)))
PxW(w) == Min(DefaultMaxCompositePx, Max(MinPx, w * PxPerCol))
PxH(h) == Min(DefaultMaxCompositePx, Max(MinPx, h * PxPerRow))

\* Image.new("RGB", (max(64, int(w * 8)), max(64, int(h * 16))), (0, 0, 0))
Placeholder(w, h) == Image(Max(MinPx, w * PxPerCol), Max(MinPx, h * PxPerRow), TRUE)

\* Renderer.render with the ascii backend and color on, on an image of one
\* colour: h rows, each one run of w glyphs.  A black image gives the first
\* (sparsest) glyph of the ramp in every cell.
Glyph(img) == IF img.black THEN " " ELSE "#"
Style(img) == IF img.black THEN "fg:#000000" ELSE "fg:#tile"
render(img, w, h) ==
    IF w < 1 \/ h < 1 THEN << << <<"", <<>> >> >> >>
    ELSE [y \in 1..h |-> << <<Style(img), [x \in 1..w |-> Glyph(img)]>> >>]


\* Terminal cell sizes the layout hands to create_content.
Cols == {1, 2}
Rows == {1, 2}

ZoomLevels == MinZoomLevel..MaxZoomLevel

\* ------------------------------------------------------ tile cache values

Tile(zz, x, y) == [z |-> zz, x |-> x, y |-> y]
NoTile == Tile(-1, 0, 0)

\* get_tile_exact, lines 95-96: n = 2 ** z; 0 <= x < n and 0 <= y < n
InRange(t) == 0 <= t.x /\ t.x < Pow2(t.z) /\ 0 <= t.y /\ t.y < Pow2(t.z)

\* get_tile_with_overzoom, lines 136-141, for one step up
Parent(t) == Tile(t.z - 1, t.x \div 2, t.y \div 2)

\* Lines 136-141 for any step: parent_z = z - step, px = x // 2 ** step,
\* py = y // 2 ** step.
Ancestor(t, s) == Tile(t.z - s, t.x \div Pow2(s), t.y \div Pow2(s))

\* The index and its ancestors up to n steps up, none above zoom 0.
FollowedTo(t, n) == {Ancestor(t, s) : s \in 0..(IF n < t.z THEN n ELSE t.z)}

\* The indices whose files one behaviour follows.
Followed(t) == IF t.z >= 1 THEN {t, Parent(t)} ELSE {t}

\* The rasters a tile server sends: square, 256 px or 512 px ("retina").
TileSizes == {TileSize, 2 * TileSize}
Raster(size) == Image(size, size, FALSE)
\* What is at a tile's path: nothing, a file that does not decode, or a PNG.
NoFile == [st |-> "none", img |-> NoImage]
CorruptFile == [st |-> "corrupt", img |-> NoImage]
ValidFile(img) == [st |-> "valid", img |-> img]
FileValues == {NoFile, CorruptFile} \cup {ValidFile(Raster(size)) : size \in TileSizes}

\* PIL: Image.crop(box) and Image.resize(size), as far as the size goes
Crop(img, box) == Image(box[3] - box[1], box[4] - box[2], img.black)
Resize(img, size) == Image(size[1], size[2], img.black)

\* A crop that is handed on without the upscale.
OverzoomNoResize(parent, t, step) ==
    LET factor == Pow2(step)
        sub_w == parent.w \div factor
        sub_h == parent.h \div factor
        ox == (t.x % factor) * sub_w
        oy == (t.y % factor) * sub_h
    IN  Crop(parent, <<ox, oy, ox + sub_w, oy + sub_h>>)

\* get_tile_with_overzoom, lines 139-153: the part of the parent raster that
\* tile t covers, upscaled to the parent's size.
Overzoom(parent, t, step) ==
    LET factor == Pow2(step)
        sub_w == parent.w \div factor
        sub_h == parent.h \div factor
        ox == (t.x % factor) * sub_w
        oy == (t.y % factor) * sub_h
    IN  Resize(Crop(parent, <<ox, oy, ox + sub_w, oy + sub_h>>),
               <<parent.w, parent.h>>)

NoRet == [kind |-> "none", img |-> NoImage]
NoTLog == [op |-> "none", file0 |-> NoFile, parent0 |-> NoFile, persisted0 |-> FALSE,
           files0 |-> <<>>,
           decodeFailed |-> FALSE, evicted |-> FALSE, fetches |-> <<>>,
           net |-> 0, fs |-> 0]

\* No session.get made yet.
NoGet == [natt |-> 0, hops |-> 0, http |-> 0, last |-> "none"]

\* How one HTTP attempt can end.  Retry (lines 62-69) re-attempts after a
\* connection or read error and after a status of status_forcelist; with its
\* default respect_retry_after_header it also re-attempts a 413 that carries
\* Retry-After (429 and 503 are in the forcelist already).  session.get
\* follows a redirect with a new request.
Transient == {"conn_error", "status_forced"}
Reattempted == Transient \cup {"retry_after"}
FinalBad == {"status_other", "empty_body", "bad_body"}

\* No TileCache call in progress, nothing on disk yet.
CacheIdle ==
    /\ tile = NoTile /\ files = <<>> /\ dirs = {}
    /\ tcall = "none" /\ ozpc = "none" /\ targ = NoTile /\ tpc = "idle"
    /\ levels = 0 /\ ozstep = 0
    /\ timg = NoImage /\ tret = NoRet
    /\ nCalls = 0 /\ persisted = FALSE /\ tlog = NoTLog
    /\ retries = 0 /\ hget = NoGet

\* The threads that call the cache at the same time.
Threads == 1..NThreads

\* No thread has called the cache yet.
LockIdle ==
    /\ lpc = [t \in Threads |-> "idle"] /\ lock = 0 /\ lfile = "none"
    /\ lret = [t \in Threads |-> "none"]
    /\ lcalls = [t \in Threads |-> 0] /\ lwriter = 0

\* ------------------------------------------------------ MapState accesses

AccThreads == {"ui", "worker"}

\* The steps of a handler: entering and leaving `with self._lock`, and the
\* reads and writes of a field, each with its line.
Acq(l) == [op |-> "acquire", field |-> "_lock", line |-> l]
Rel(l) == [op |-> "release", field |-> "_lock", line |-> l]
Rd(f, l) == [op |-> "read", field |-> f, line |-> l]
Wr(f, l) == [op |-> "write", field |-> f, line |-> l]

\* MapState.set_info (state.py 102-104) and the reads of request_render
\* (map_control.py 256-258)
SetInfoSteps == <<Acq(103), Wr("info_msg", 104), Rel(104)>>
RequestRenderSteps == <<Rd("lat", 256), Rd("lon", 257), Rd("z", 258)>>

\* MapState.zoom_delta (state.py 80-82)
ZoomDeltaSteps == <<Acq(81), Rd("z", 82), Wr("z", 82), Rel(82)>>

\* The accesses of each handler in program order.  pan is map_control.py
\* 237-244 with _normalize_center (state.py 65-67) and record_pan (state.py
\* 91-98); zoom is 247-249; create_content reads the state at line 88 or 94;
\* StatusBar.update is statusbar.py 26-31, Compass.create_content compass.py
\* 17, Toolbar._help toolbar.py 75; the worker writes at map_control.py 175.
Steps(h) ==
    CASE h = "pan" ->
           <<Rd("z", 237), Rd("z", 238),
             Rd("lat", 239), Wr("lat", 239), Rd("lon", 240), Wr("lon", 240),
             Rd("lat", 65), Wr("lat", 65), Rd("lon", 66), Wr("lon", 66),
             Rd("z", 67), Wr("z", 67),
             Acq(91), Wr("heading_deg", 98), Rel(98),
             Rd("lat", 243), Rd("lon", 243)>>
           \o SetInfoSteps \o RequestRenderSteps
      [] h = "zoom" ->
           ZoomDeltaSteps \o <<Rd("z", 248)>> \o SetInfoSteps
           \o RequestRenderSteps
      [] h = "create_content" -> <<Rd("lat", 88), Rd("lon", 88), Rd("z", 88)>>
      [] h = "statusbar" ->
           <<Rd("lat", 26), Rd("lon", 26), Rd("z", 27),
             Rd("last_render_ms", 27), Rd("info_msg", 28), Wr("info_msg", 31)>>
      [] h = "compass" -> <<Rd("heading_deg", 17)>>
      [] h = "help" -> SetInfoSteps
      [] h = "render_worker" -> <<Wr("last_render_ms", 175)>>

\* The handlers each thread runs.
HandlersOf(t) ==
    IF t = "ui"
    THEN {"pan", "zoom", "create_content", "statusbar", "compass", "help"}
    ELSE {"render_worker"}

NoAccess == [by |-> "none", field |-> "none", kind |-> "none", line |-> 0,
             held |-> FALSE]

\* No handler in progress, no field touched yet.
AccIdle ==
    /\ slock = "free"
    /\ sop = [t \in AccThreads |-> "none"]
    /\ spos = [t \in AccThreads |-> 0]
    /\ sacc = NoAccess

\* -------------------------------------------------------- compositor values

\* math.ceil(a / b) for positive integers
CeilDiv(a, b) == (a + b - 1) \div b

\* int(n2 / 2): int() cuts a float towards zero
IntOfHalf(n2) == IF n2 >= 0 THEN n2 \div 2 ELSE -((-n2) \div 2)

\* A cell of `base` that nothing was pasted on: (0, 0, 0).
Black == Tile(-2, 0, 0)

\* Lines 55-56 and 59-60
TilesAcross(px) == CeilDiv(px, TileSize) + 2
CanvasSize(in) == <<TilesAcross(in.w) * TileSize, TilesAcross(in.h) * TileSize>>

\* The cells (dx, dy) of the loops of lines 68-69.
Cells(in) == (0..(TilesAcross(in.w) - 1)) \X (0..(TilesAcross(in.h) - 1))

\* Lines 64-65 and 70-71: the index of cell (dx, dy); x wrapped, y not.
CellIndex(in, c) ==
    Tile(in.z, (in.tx - TilesAcross(in.w) \div 2 + c[1]) % Pow2(in.z),
               in.ty - TilesAcross(in.h) \div 2 + c[2])

\* A row off the grid is wrapped like a column instead of skipped.
RequestedWrapsY(in, c) ==
    LET t == CellIndex(in, c)
    IN  Tile(t.z, t.x, t.y % Pow2(in.z))

\* Lines 72-74: the index passed to get_tile_with_overzoom for a cell, NoTile
\* for a cell whose row is skipped.
Requested(in, c) ==
    LET t == CellIndex(in, c)
    IN  IF ~(0 <= t.y /\ t.y < Pow2(in.z)) THEN NoTile ELSE t

\* Lines 72-76: what the cell holds after the loops; a raster is pasted at
\* (dx * 256, dy * 256) and has the size of a cell.
Pasted(in, miss, c) ==
    LET t == Requested(in, c)
    IN  IF t = NoTile \/ t \in miss THEN Black ELSE t

\* A crop box that is cut back to the canvas.
CropBoxClipped(in) ==
    LET left == IntOfHalf(2 * in.offx + TileSize - in.w)
        top == IntOfHalf(2 * in.offy + TileSize - in.h)
        right == Min(left + in.w, CanvasSize(in)[1])
        bottom == Min(top + in.h, CanvasSize(in)[2])
    IN  <<IF left < 0 THEN 0 ELSE left, IF top < 0 THEN 0 ELSE top, right, bottom>>

\* Lines 79-84: cx = (xt - tx + 0.5) * 256, left = int(cx - width_px / 2),
\* right = left + width_px, and the same downwards.
CropBox(in) ==
    LET left == IntOfHalf(2 * in.offx + TileSize - in.w)
        top == IntOfHalf(2 * in.offy + TileSize - in.h)
    IN  <<left, top, left + in.w, top + in.h>>

NoInput == [z |-> 0, tx |-> 0, ty |-> 0, offx |-> 0, offy |-> 0, w |-> 0, h |-> 0]

\* The output sizes: a pixel, a whole number of tiles, and a pixel more.
CompSizes ==
    {1} \cup {k * TileSize + d : k \in 1..MaxSpan, d \in {0, 1}}

\* int(xt) for a center in the first tile, in the last one, and at lon = 180,
\* where xt = 2^z.
CenterTiles(zz) == {0, Pow2(zz) - 1, Pow2(zz)}

\* (xt - tx) * 256: the center is at its tile's first pixel, middle or last
\* pixel.
CenterOffsets == {0, TileSize \div 2, TileSize - 1}

\* The indices of zoom zz, and the sets of them a cache may be missing: none,
\* one, all but one, all.
Grid(zz) == {Tile(zz, x, y) : x \in 0..(Pow2(zz) - 1), y \in 0..(Pow2(zz) - 1)}
MissingSets(zz) ==
    {{}, Grid(zz)} \cup {{t} : t \in Grid(zz)} \cup {Grid(zz) \ {t} : t \in Grid(zz)}

\* No composite_from_tiles call in progress.
CompIdle ==
    /\ cpc = "idle" /\ cin = NoInput /\ cmiss = {} /\ canvas = <<>>
    /\ creq = <<>> /\ cbox = <<0, 0, 0, 0>> /\ cout = NoImage

\* ------------------------------------------------------------ prune values

\* config.py, line 258: prune_watermark is kept within 0.50 .. 0.99 (0.85
\* when not given); in hundredths.
Watermarks == {50, 85, 99}

PngFile(size, mtime) == [size |-> size, mtime |-> mtime, there |-> TRUE]

RECURSIVE SumSizes(_, _)
\* sum of st_size over the files of f[1..n] that are there
SumSizes(f, n) ==
    IF n = 0 THEN 0
    ELSE SumSizes(f, n - 1) + (IF f[n].there THEN f[n].size ELSE 0)

RECURSIVE InsertByMtime(_, _, _)
\* list.sort is stable: i goes behind every entry that is not newer
InsertByMtime(f, i, sorted) ==
    IF sorted = <<>> THEN <<i>>
    ELSE IF f[Head(sorted)].mtime <= f[i].mtime
         THEN <<Head(sorted)>> \o InsertByMtime(f, i, Tail(sorted))
         ELSE <<i>> \o sorted

RECURSIVE SortPrefix(_, _)
SortPrefix(f, n) ==
    IF n = 0 THEN <<>> ELSE InsertByMtime(f, n, SortPrefix(f, n - 1))

\* The files left in the order os.walk listed them.
WalkOrder(f) == [i \in 1..Len(f) |-> i]

\* prune, line 177: files.sort(key=lambda p: p.stat().st_mtime)
SortByMtime(f) == SortPrefix(f, Len(f))

NoFault == [phase |-> "none", file |-> 0]

\* No prune in progress.
PruneIdle ==
    /\ pfiles = <<>> /\ max_bytes = 0 /\ watermark = 0 /\ ppc = "idle"
    /\ total = 0 /\ target = 0 /\ todo = <<>> /\ gone = <<>>
    /\ pfault = NoFault

\* ----------------------------------------------------------- render values

\* Pixels: black, red (dark, another style than black) and white.
Colors == { <<0, 0, 0>>, <<255, 0, 0>>, <<255, 255, 255>> }

\* 1000 times the Rec. 601 luminance 0.299 r + 0.587 g + 0.114 b (0 .. 255000)
Lum1000(c) == 299 * c[1] + 587 * c[2] + 114 * c[3]

\* _rgb_to_style: "fg:#rrggbb" is the three channels; "" is the empty tuple
\* and None (run_style before the first cell) a tuple of its own.
rgb_to_style(c) == <<c[1], c[2], c[3]>>
EmptyStyle == <<>>
NoneStyle == << -1 >>

\* A glyph is one character: an entry of the palette, a block element of
\* _QUAD_GLYPHS, or the Braille pattern chr(0x2800 | bits).
PaletteGlyph(i) == [set |-> "palette", code |-> i]
QuadGlyph(bits) == [set |-> "quadrant", code |-> bits]
BrailleGlyph(bits) == [set |-> "braille", code |-> 10240 + bits]

\* default_palettes(): ramps of 2, 5 and 10 glyphs; 0 is the empty string.
PaletteLens == {0, 2, 5, 10}

\* The mean colour of the pixels arr[y0 .. y0+bh-1][x0 .. x0+bw-1], each
\* channel cut to an integer: arr[...].mean(axis=(0, 1)).astype(int)
RECURSIVE SumChannel(_, _, _, _, _, _)
SumChannel(a, k, y0, x0, bw, n) ==
    IF n = 0 THEN 0
    ELSE SumChannel(a, k, y0, x0, bw, n - 1)
         + a[y0 + ((n - 1) \div bw)][x0 + ((n - 1) % bw)][k]
BlockMean(a, y0, x0, bh, bw) ==
    [k \in 1..3 |-> SumChannel(a, k, y0, x0, bw, bh * bw) \div (bh * bw)]

\* A merging that forgets the run in hand at the end of the row.
RECURSIVE RunsDropLast(_, _, _, _, _)
RunsDropLast(cells, x, line, last_style, buf) ==
    IF x > Len(cells)
    THEN line
    ELSE LET split == cells[x][1] # last_style /\ buf # <<>>
         IN  RunsDropLast(cells, x + 1,
                  IF split THEN Append(line, <<last_style, buf>>) ELSE line,
                  cells[x][1],
                  IF split THEN <<cells[x][2]>> ELSE Append(buf, cells[x][2]))

\* A merging that closes a run at every cell.
RunsPerCell(cells, x, line, last_style, buf) ==
    [i \in 1..Len(cells) |-> <<cells[i][1], <<cells[i][2]>> >>]

\* Run-length merging as all three loops do it: a cell whose style differs
\* from the last one closes the run in hand (if any); the run left at the end
\* of the row is appended.  cells[x] = <<style, glyph>>.
RECURSIVE Runs(_, _, _, _, _)
Runs(cells, x, line, last_style, buf) ==
    IF x > Len(cells)
    THEN IF buf # <<>> THEN Append(line, <<last_style, buf>>) ELSE line
    ELSE LET split == cells[x][1] # last_style /\ buf # <<>>
         IN  Runs(cells, x + 1,
                  IF split THEN Append(line, <<last_style, buf>>) ELSE line,
                  cells[x][1],
                  IF split THEN <<cells[x][2]>> ELSE Append(buf, cells[x][2]))

\* An image: its size and its pixels.
Pixels(w, h, pix) == [w |-> w, h |-> h, pix |-> pix]
NoPixels == Pixels(0, 0, <<>>)

\* The images handed in: w columns of any colours, each row the row above
\* moved left by `shift` pixels.  shift = 0 gives vertical stripes; an image
\* whose columns all have one colour is a single-colour image.
Striped(w, h, cols, shift) ==
    Pixels(w, h, [y \in 1..h |-> [x \in 1..w |->
                     cols[((x - 1 + shift * (y - 1)) % w) + 1]]])

\* img.resize((W, H), Image.LANCZOS): an H x W array; each pixel is taken
\* from the place of the source it covers (sampling stands for the Lanczos
\* filter, which also keeps a single-colour image single-colour).
ResizeTo(im, W, H) ==
    [y \in 1..H |-> [x \in 1..W |->
        im.pix[(((y - 1) * im.h) \div H) + 1][(((x - 1) * im.w) \div W) + 1]]]

\* Darker than the 0.5 threshold: gray < 0.5
Dark(c) == Lum1000(c) < 127500

EmptyFrame == << << <<EmptyStyle, <<>> >> >> >>

\* AsciiBackend.render
AsciiRender(im, w, h, color, pal) ==
    IF w < 1 \/ h < 1 THEN EmptyFrame
    ELSE LET a == ResizeTo(im, w, h)
             n == IF pal = 0 THEN 2 ELSE pal
             idx(c) == Max(0, Min(n - 1,
                          (2 * Lum1000(c) * (n - 1) + 255000) \div 510000))
             HH == Len(a)
             WW == Len(a[1])
         IN  [y \in 1..HH |->
                IF color
                THEN LET line == Runs([x \in 1..WW |->
                                         <<rgb_to_style(a[y][x]),
                                           PaletteGlyph(idx(a[y][x]))>>],
                                      1, <<>>, NoneStyle, <<>>)
                     IN  IF line # <<>> THEN line ELSE << <<EmptyStyle, <<>> >> >>
                ELSE << <<EmptyStyle,
                          [x \in 1..WW |-> PaletteGlyph(idx(a[y][x]))]>> >>]

\* QuadrantRenderer.render
QuadrantRender(im, w, h, color, pal) ==
    IF w <= 0 \/ h <= 0 THEN EmptyFrame
    ELSE LET a == ResizeTo(im, w * 2, h * 2)
             bit(y, x, b) == IF Dark(a[y][x]) THEN b ELSE 0
             ch(cy, cx) == QuadGlyph(bit(cy, cx, 8) + bit(cy, cx + 1, 4)
                                     + bit(cy + 1, cx, 2) + bit(cy + 1, cx + 1, 1))
         IN  [r \in 1..h |->
                LET cy == 2 * r - 1
                IN  IF color
                    THEN Runs([c \in 1..w |->
                                 <<rgb_to_style(BlockMean(a, cy, 2 * c - 1, 2, 2)),
                                   ch(cy, 2 * c - 1)>>],
                              1, <<>>, EmptyStyle, <<>>)
                    ELSE << <<EmptyStyle, [c \in 1..w |-> ch(cy, 2 * c - 1)]>> >>]

\* braille_mode.DOT_BITS[ry][cx], rows and columns counted from 1
DOT_BITS == << <<1, 8>>, <<2, 16>>, <<4, 32>>, <<64, 128>> >>

\* BrailleRenderer._to_braille_char on the block at (y0, x0)
RECURSIVE BrailleBits(_, _, _, _)
BrailleBits(a, y0, x0, n) ==
    IF n = 0 THEN 0
    ELSE LET ry == (n - 1) \div 2
             cx == (n - 1) % 2
         IN  BrailleBits(a, y0, x0, n - 1)
             + (IF Dark(a[y0 + ry][x0 + cx]) THEN DOT_BITS[ry + 1][cx + 1] ELSE 0)

\* BrailleRenderer.render
BrailleRender(im, w, h, color, pal) ==
    IF w <= 0 \/ h <= 0 THEN EmptyFrame
    ELSE LET a == ResizeTo(im, w * 2, h * 4)
         IN  [r \in 1..h |->
                LET cy == 4 * r - 3
                    line == Runs([c \in 1..w |->
                                    <<IF color
                                      THEN rgb_to_style(BlockMean(a, cy, 2 * c - 1, 4, 2))
                                      ELSE EmptyStyle,
                                      BrailleGlyph(BrailleBits(a, cy, 2 * c - 1, 8))>>],
                                 1, <<>>, EmptyStyle, <<>>)
                IN  IF line # <<>> THEN line ELSE << <<EmptyStyle, <<>> >> >>]

\* Renderer._backends as AsciiMapApp.__init__ leaves it: __post_init__
\* registers "ascii", and nothing calls register() after it.
Backends == [m \in {"ascii"} |-> "AsciiBackend"]

\* The mode names config.py lets through, and one it does not.
ModeNames == {"ascii", "quadrant", "braille", "other"}

\* Renderer.render, lines 187-190
Dispatch(m) ==
    IF m \in DOMAIN Backends THEN Backends[m] ELSE Backends["ascii"]

\* backend.render(img, term_w, term_h, use_color, palette), line 192
BackendRender(b, im, w, h, color, pal) ==
    CASE b = "AsciiBackend" -> AsciiRender(im, w, h, color, pal)
      [] b = "QuadrantRenderer" -> QuadrantRender(im, w, h, color, pal)
      [] b = "BrailleRenderer" -> BrailleRender(im, w, h, color, pal)

\* No backend call in progress.
RenderIdle ==
    /\ mode = "none" /\ rimg = NoPixels /\ term_w = 0 /\ term_h = 0
    /\ use_color = FALSE /\ palette = 0 /\ rpc = "idle" /\ rframe = <<>>
    /\ rbackend = "none"

\* The number of the job that is submitted next.
NextJobId == IF nSubmitted < MaxJobs THEN nSubmitted + 1 ELSE MaxJobs

\* -------------------------------------------------------------------- Init

\* MapControl.__init__ after MapState.__post_init__: both queues empty, the
\* worker thread started, no Frame held.
PipeInitFrom(centers) ==
    /\ req_q = <<>> /\ res_q = <<>>
    /\ reqMutex = "free" /\ resMutex = "free"
    /\ stop = FALSE
    /\ last_width = 1 /\ last_height = 1 /\ last_frame = NoFrame
    /\ \E c \in centers : lat = clamp_lat(c[1]) /\ lon = wrap_lon(c[2])
    /\ z \in ZoomLevels
    /\ last_render_ms = 0
    /\ upc = "idle" /\ uw = 1 /\ uh = 1 /\ ulatest = NoFrame
    /\ uitem = NoneJob /\ ucont = "idle" /\ content = NoContent
    /\ wpc = "loop" /\ wjob = NoneJob /\ wpx = <<0, 0>>
    /\ wimg = NoImage /\ wframe = NoFrame
    /\ nOps = 0 /\ nSubmitted = 0 /\ dequeued = NoDequeue
    /\ superseded = {} /\ lastPosted = 0 /\ discarded = {}
    /\ owed = 0 /\ dropped = {}
    /\ ccLog = NoLog

PipeInit == PipeInitFrom(StartCenters)

\* The program as app.py starts it: the cache has served no call yet.
Init == PipeInit /\ CacheIdle /\ PruneIdle /\ RenderIdle /\ LockIdle /\ CompIdle /\ AccIdle

\* ------------------------------------------------- the interactive loop

\* create_content, lines 76-80: clamp and remember the size, then drain.
CreateContentCall ==
    /\ upc = "idle" /\ nOps < MaxOps
    /\ \E width \in Cols, height \in Rows :
          /\ uw' = Max(1, width) /\ uh' = Max(1, height)
          /\ last_width' = Max(1, width) /\ last_height' = Max(1, height)
    /\ ulatest' = NoFrame
    /\ content' = NoContent /\ ccLog' = NoLog
    /\ nOps' = nOps + 1
    /\ upc' = "drain"
    /\ UNCHANGED offPipe
    /\ UNCHANGED <<qVars, last_frame, stateVars, uitem, ucont, workerVars,
                   nSubmitted, dequeued, superseded, lastPosted, discarded,
                   owed, dropped>>

\* The repaint that follows app.invalidate() (line 187) while the posted
\* Frame waits in the outbound slot: create_content is called with the size
\* the viewport has.
Repaint ==
    /\ upc = "idle" /\ res_q # <<>>
    /\ uw' = last_width /\ uh' = last_height
    /\ ulatest' = NoFrame
    /\ content' = NoContent /\ ccLog' = NoLog
    /\ upc' = "drain"
    /\ UNCHANGED offPipe
    /\ UNCHANGED <<qVars, ctlVars, stateVars, uitem, ucont, workerVars,
                   nOps, nSubmitted, dequeued, superseded, lastPosted,
                   discarded, owed, dropped>>

\* _drain_results: one get_nowait that returns a Frame.
DrainGet ==
    /\ upc = "drain" /\ resMutex = "free" /\ res_q # <<>>
    /\ ulatest' = Head(res_q)
    /\ res_q' = Tail(res_q)
    /\ UNCHANGED offPipe
    /\ UNCHANGED <<req_q, reqMutex, resMutex, stop, ctlVars, stateVars,
                   upc, uw, uh, uitem, ucont, content, workerVars, histVars>>

\* A create_content that takes whatever the drain gave, a Frame or nothing,
\* as the Frame it holds.
DrainEmptyForgets ==
    /\ upc = "drain" /\ resMutex = "free" /\ res_q = <<>>
    /\ LET frame == ulatest
           job == Job(NextJobId, uw, uh, lat, lon, z)
       IN  /\ last_frame' = frame
           /\ ccLog' = [w |-> uw, h |-> uh, held |-> frame, job |-> NoneJob,
                        lat |-> lat, lon |-> lon, z |-> z]
           /\ IF frame = NoFrame
              THEN /\ uitem' = job /\ ucont' = "blank" /\ upc' = "enq_lock"
                   /\ content' = content
              ELSE IF frame.width # uw \/ frame.height # uh
              THEN /\ uitem' = job /\ ucont' = "show" /\ upc' = "enq_lock"
                   /\ content' = content
              ELSE /\ uitem' = uitem /\ ucont' = ucont /\ upc' = "idle"
                   /\ content' = frame_content(frame, uw, uh)
    /\ ulatest' = NoFrame
    /\ UNCHANGED offPipe
    /\ UNCHANGED <<qVars, last_width, last_height, stateVars, uw, uh,
                   workerVars, nOps, nSubmitted, dequeued, superseded,
                   lastPosted, discarded, owed, dropped>>

\* _drain_results: get_nowait raises queue.Empty and the loop ends; then
\* create_content, lines 83-94: adopt the drained Frame and decide whether a
\* job is needed.  With a held Frame of the right size, lines 96-109 follow
\* at once: normalise, overlay the crosshair, return.
DrainEmpty ==
    /\ upc = "drain" /\ resMutex = "free" /\ res_q = <<>>
    /\ LET frame == IF ulatest # NoFrame THEN ulatest ELSE last_frame
           job == Job(NextJobId, uw, uh, lat, lon, z)
       IN  /\ last_frame' = frame
           /\ ccLog' = [w |-> uw, h |-> uh, held |-> frame, job |-> NoneJob,
                        lat |-> lat, lon |-> lon, z |-> z]
           /\ IF frame = NoFrame
              THEN /\ uitem' = job /\ ucont' = "blank" /\ upc' = "enq_lock"
                   /\ content' = content
              ELSE IF frame.width # uw \/ frame.height # uh
              THEN /\ uitem' = job /\ ucont' = "show" /\ upc' = "enq_lock"
                   /\ content' = content
              ELSE /\ uitem' = uitem /\ ucont' = ucont /\ upc' = "idle"
                   /\ content' = frame_content(frame, uw, uh)
    /\ ulatest' = NoFrame
    /\ UNCHANGED offPipe
    /\ UNCHANGED <<qVars, last_width, last_height, stateVars, uw, uh,
                   workerVars, nOps, nSubmitted, dequeued, superseded,
                   lastPosted, discarded, owed, dropped>>

\* _enqueue, line 126: enter `with self._req_q.mutex`.
EnqueueLock ==
    /\ upc = "enq_lock" /\ reqMutex = "free"
    /\ reqMutex' = "ui"
    /\ upc' = "enq_clear"
    /\ UNCHANGED offPipe
    /\ UNCHANGED <<req_q, res_q, resMutex, stop, ctlVars, stateVars, uw, uh,
                   ulatest, uitem, ucont, content, workerVars, histVars>>

\* Mutant: _enqueue does not clear the deque.
EnqueueNoClear ==
    /\ upc = "enq_clear" /\ reqMutex = "ui"
    /\ reqMutex' = "free"
    /\ upc' = "enq_put"
    /\ UNCHANGED offPipe
    /\ UNCHANGED <<req_q, res_q, resMutex, stop, ctlVars, stateVars, uw, uh,
                   ulatest, uitem, ucont, content, workerVars, histVars>>

\* Mutant: _enqueue makes room only when the queue is full.
EnqueueClearWhenFull ==
    /\ upc = "enq_clear" /\ reqMutex = "ui"
    /\ req_q' = IF Len(req_q) >= ReqMaxSize THEN <<>> ELSE req_q
    /\ superseded' = IF Len(req_q) >= ReqMaxSize
                     THEN superseded \cup Ids(req_q) ELSE superseded
    /\ reqMutex' = "free"
    /\ upc' = "enq_put"
    /\ UNCHANGED offPipe
    /\ UNCHANGED <<res_q, resMutex, stop, ctlVars, stateVars, uw, uh,
                   ulatest, uitem, ucont, content, workerVars, nOps,
                   nSubmitted, dequeued, lastPosted, discarded, owed, dropped,
                   ccLog>>

\* _enqueue, line 127: clear the deque and leave the with block.
EnqueueClear ==
    /\ upc = "enq_clear" /\ reqMutex = "ui"
    /\ req_q' = <<>>
    /\ superseded' = superseded \cup Ids(req_q)
    /\ reqMutex' = "free"
    /\ upc' = "enq_put"
    /\ UNCHANGED offPipe
    /\ UNCHANGED <<res_q, resMutex, stop, ctlVars, stateVars, uw, uh,
                   ulatest, uitem, ucont, content, workerVars, nOps,
                   nSubmitted, dequeued, lastPosted, discarded, owed, dropped,
                   ccLog>>

\* _enqueue, lines 128-131: put_nowait, queue.Full swallowed.  When the
\* caller is create_content, its return follows at once: line 89 (blank
\* content) or lines 96-109 (the held Frame, normalised).
EnqueuePut ==
    /\ upc = "enq_put" /\ reqMutex = "free"
    /\ IF Len(req_q) < ReqMaxSize
       THEN req_q' = Append(req_q, uitem) /\ dropped' = dropped
       ELSE req_q' = req_q /\ dropped' = dropped \cup {"req"}
    /\ nSubmitted' = NextJobId
    /\ ccLog' = IF ucont = "idle" THEN ccLog ELSE [ccLog EXCEPT !.job = uitem]
    /\ content' = CASE ucont = "blank" -> blank_content(uw, uh)
                    [] ucont = "show" -> frame_content(last_frame, uw, uh)
                    [] OTHER -> content
    /\ uitem' = NoneJob /\ ucont' = "idle"
    /\ upc' = "idle"
    /\ UNCHANGED offPipe
    /\ UNCHANGED <<res_q, reqMutex, resMutex, stop, ctlVars, stateVars, uw, uh,
                   ulatest, workerVars, nOps, dequeued, superseded, lastPosted,
                   discarded, owed>>

\* pan(dx, dy), lines 237-244, up to the call of _enqueue in request_render.
Pan ==
    /\ upc = "idle" /\ nOps < MaxOps
    /\ \E v \in PanVectors :
          /\ lat' = clamp_lat(lat - v[2] * PanStep(z))
          /\ lon' = wrap_lon(lon + v[1] * PanStep(z))
          /\ z' = ClampZoom(z)
          /\ uitem' = Job(NextJobId, last_width, last_height,
                          clamp_lat(lat - v[2] * PanStep(z)),
                          wrap_lon(lon + v[1] * PanStep(z)), ClampZoom(z))
    /\ ucont' = "idle" /\ upc' = "enq_lock"
    /\ content' = NoContent /\ ccLog' = NoLog
    /\ nOps' = nOps + 1
    /\ UNCHANGED offPipe
    /\ UNCHANGED <<qVars, ctlVars, last_render_ms, uw, uh, ulatest, workerVars,
                   nSubmitted, dequeued, superseded, lastPosted, discarded,
                   owed, dropped>>

\* A zoom that asks for no render when the level did not change.
ZoomQuietAtBound ==
    /\ upc = "idle" /\ nOps < MaxOps
    /\ \E delta \in ZoomDeltas :
          /\ z' = ClampZoom(z + delta)
          /\ IF ClampZoom(z + delta) = z
             THEN uitem' = NoneJob /\ upc' = "idle"
             ELSE /\ uitem' = Job(NextJobId, last_width, last_height, lat,
                                  lon, ClampZoom(z + delta))
                  /\ upc' = "enq_lock"
    /\ ucont' = "idle"
    /\ content' = NoContent /\ ccLog' = NoLog
    /\ nOps' = nOps + 1
    /\ UNCHANGED offPipe
    /\ UNCHANGED <<qVars, ctlVars, lat, lon, last_render_ms, uw, uh, ulatest,
                   workerVars, nSubmitted, dequeued, superseded, lastPosted,
                   discarded, owed, dropped>>

\* zoom(delta), lines 247-249, up to the call of _enqueue in request_render.
Zoom ==
    /\ upc = "idle" /\ nOps < MaxOps
    /\ \E delta \in ZoomDeltas :
          /\ z' = ClampZoom(z + delta)
          /\ uitem' = Job(NextJobId, last_width, last_height, lat, lon,
                          ClampZoom(z + delta))
    /\ ucont' = "idle" /\ upc' = "enq_lock"
    /\ content' = NoContent /\ ccLog' = NoLog
    /\ nOps' = nOps + 1
    /\ UNCHANGED offPipe
    /\ UNCHANGED <<qVars, ctlVars, lat, lon, last_render_ms, uw, uh, ulatest,
                   workerVars, nSubmitted, dequeued, superseded, lastPosted,
                   discarded, owed, dropped>>

\* MapState.set_center(lat, lon), state.py 71-74
SetCenter ==
    /\ upc = "idle" /\ nOps < MaxOps
    /\ \E c \in CenterArgs :
          lat' = clamp_lat(c[1]) /\ lon' = wrap_lon(c[2])
    /\ content' = NoContent /\ ccLog' = NoLog
    /\ nOps' = nOps + 1
    /\ UNCHANGED offPipe
    /\ UNCHANGED <<qVars, ctlVars, z, last_render_ms, upc, uw, uh, ulatest,
                   uitem, ucont, workerVars, nSubmitted, dequeued, superseded,
                   lastPosted, discarded, owed, dropped>>

\* MapState.set_zoom(z), state.py 76-78
SetZoom ==
    /\ upc = "idle" /\ nOps < MaxOps
    /\ \E zz \in ZoomArgs : z' = ClampZoom(zz)
    /\ content' = NoContent /\ ccLog' = NoLog
    /\ nOps' = nOps + 1
    /\ UNCHANGED offPipe
    /\ UNCHANGED <<qVars, ctlVars, lat, lon, last_render_ms, upc, uw, uh,
                   ulatest, uitem, ucont, workerVars, nSubmitted, dequeued,
                   superseded, lastPosted, discarded, owed, dropped>>

\* shutdown, line 227: set the stop flag.
Shutdown ==
    /\ upc = "idle"
    /\ stop' = TRUE
    /\ upc' = "sd_lock"
    /\ content' = NoContent /\ ccLog' = NoLog
    /\ UNCHANGED offPipe
    /\ UNCHANGED <<req_q, res_q, reqMutex, resMutex, ctlVars, stateVars, uw, uh,
                   ulatest, uitem, ucont, workerVars, nOps, nSubmitted,
                   dequeued, superseded, lastPosted, discarded, owed, dropped>>

\* shutdown, line 228: enter `with self._req_q.mutex`.
ShutdownLock ==
    /\ upc = "sd_lock" /\ reqMutex = "free"
    /\ reqMutex' = "ui"
    /\ upc' = "sd_clear"
    /\ UNCHANGED offPipe
    /\ UNCHANGED <<req_q, res_q, resMutex, stop, ctlVars, stateVars, uw, uh,
                   ulatest, uitem, ucont, content, workerVars, histVars>>

\* shutdown, line 229: clear the deque and leave the with block.
ShutdownClear ==
    /\ upc = "sd_clear" /\ reqMutex = "ui"
    /\ req_q' = <<>>
    /\ superseded' = superseded \cup Ids(req_q)
    /\ reqMutex' = "free"
    /\ upc' = "sd_put"
    /\ UNCHANGED offPipe
    /\ UNCHANGED <<res_q, resMutex, stop, ctlVars, stateVars, uw, uh,
                   ulatest, uitem, ucont, content, workerVars, nOps,
                   nSubmitted, dequeued, lastPosted, discarded, owed, dropped,
                   ccLog>>

\* shutdown, lines 230-233: put_nowait(None), queue.Full swallowed.
ShutdownPut ==
    /\ upc = "sd_put" /\ reqMutex = "free"
    /\ IF Len(req_q) < ReqMaxSize
       THEN req_q' = Append(req_q, NoneJob) /\ dropped' = dropped
       ELSE req_q' = req_q /\ dropped' = dropped \cup {"req"}
    /\ upc' = "sd_join"
    /\ UNCHANGED offPipe
    /\ UNCHANGED <<res_q, reqMutex, resMutex, stop, ctlVars, stateVars, uw, uh,
                   ulatest, uitem, ucont, content, workerVars, nOps,
                   nSubmitted, dequeued, superseded, lastPosted, discarded,
                   owed, ccLog>>

\* The worker thread has left _render_worker, by return or by an exception.
WorkerGone == wpc \in {"exited", "crashed"}

\* Mutant: join() without a timeout returns only when the thread has ended.
JoinWaits == WorkerGone

\* self._thread.join(timeout=0.5) returns when the thread has ended or when
\* the 0.5 s have passed, whichever is first.
JoinReturns == WorkerGone \/ TRUE

\* shutdown, line 234.
ShutdownJoin ==
    /\ upc = "sd_join" /\ JoinReturns
    /\ upc' = "closed"
    /\ UNCHANGED offPipe
    /\ UNCHANGED <<qVars, ctlVars, stateVars, uw, uh, ulatest, uitem, ucont,
                   content, workerVars, histVars>>

\* request_render (lines 256-258) called after shutdown has returned: the
\* job of the present view goes through _enqueue like any other.
LateRequest ==
    /\ upc = "closed" /\ nOps < MaxOps
    /\ uitem' = Job(NextJobId, last_width, last_height, lat, lon, z)
    /\ ucont' = "idle" /\ upc' = "enq_lock"
    /\ content' = NoContent /\ ccLog' = NoLog
    /\ nOps' = nOps + 1
    /\ UNCHANGED offPipe
    /\ UNCHANGED <<qVars, ctlVars, stateVars, uw, uh, ulatest, workerVars,
                   nSubmitted, dequeued, superseded, lastPosted, discarded,
                   owed, dropped>>

\* ------------------------------------------------------ the render worker

\* line 134: while not self._stop.is_set()
WorkerLoop ==
    /\ wpc = "loop"
    /\ wpc' = IF stop THEN "exited" ELSE "get"
    /\ UNCHANGED offPipe
    /\ UNCHANGED <<qVars, ctlVars, stateVars, uiVars, wjob, wpx, wimg, wframe,
                   histVars>>

\* line 136: get(timeout=0.2) returns the oldest item.
WorkerGet ==
    /\ wpc = "get" /\ reqMutex = "free" /\ req_q # <<>>
    /\ wjob' = Head(req_q)
    /\ req_q' = Tail(req_q)
    /\ dequeued' = IF Head(req_q) = NoneJob THEN dequeued
                   ELSE [id |-> Head(req_q).id, latest |-> nSubmitted]
    /\ wpc' = "check"
    /\ UNCHANGED offPipe
    /\ UNCHANGED <<res_q, reqMutex, resMutex, stop, ctlVars, stateVars, uiVars,
                   wpx, wimg, wframe, nOps, nSubmitted, superseded, lastPosted,
                   discarded, owed, dropped, ccLog>>

\* lines 137-138: the queue stayed empty for 0.2 s; queue.Empty, continue.
WorkerGetTimeout ==
    /\ wpc = "get" /\ reqMutex = "free" /\ req_q = <<>>
    /\ wpc' = "loop"
    /\ UNCHANGED offPipe
    /\ UNCHANGED <<qVars, ctlVars, stateVars, uiVars, wjob, wpx, wimg, wframe,
                   histVars>>

\* Mutant: only the None sentinel ends the loop here, the stop flag is not
\* looked at.
WorkerCheckIgnoresStop ==
    /\ wpc = "check"
    /\ IF wjob = NoneJob
       THEN wpc' = "exited" /\ wpx' = wpx
       ELSE wpc' = "composite" /\ wpx' = <<PxW(wjob.w), PxH(wjob.h)>>
    /\ UNCHANGED offPipe
    /\ UNCHANGED <<qVars, ctlVars, stateVars, uiVars, wjob, wimg, wframe,
                   histVars>>

\* lines 140-148: leave on None or on the stop flag; else unpack the job and
\* compute the pixel size to ask of the compositor.
WorkerCheck ==
    /\ wpc = "check"
    /\ IF wjob = NoneJob \/ stop
       THEN wpc' = "exited" /\ wpx' = wpx
       ELSE wpc' = "composite" /\ wpx' = <<PxW(wjob.w), PxH(wjob.h)>>
    /\ UNCHANGED offPipe
    /\ UNCHANGED <<qVars, ctlVars, stateVars, uiVars, wjob, wimg, wframe,
                   histVars>>

\* lines 149-163: composite_from_tiles returns an image of the size asked for.
\* The call blocks on network and disk for as long as it takes.
WorkerCompositeOk ==
    /\ wpc = "composite"
    /\ wimg' = Image(wpx[1], wpx[2], FALSE)
    /\ wpc' = "render"
    /\ UNCHANGED offPipe
    /\ UNCHANGED <<qVars, ctlVars, stateVars, uiVars, wjob, wpx, wframe,
                   histVars>>

\* Mutant: the handler gives the job up and goes on with the next one.
WorkerCompositeFailSkips ==
    /\ wpc = "composite"
    /\ owed' = wjob.id
    /\ wpc' = "loop"
    /\ UNCHANGED offPipe
    /\ UNCHANGED <<qVars, ctlVars, stateVars, uiVars, wjob, wpx, wimg, wframe,
                   nOps, nSubmitted, dequeued, superseded, lastPosted,
                   discarded, dropped, ccLog>>

\* lines 164-165: composite_from_tiles raised; the handler makes a black image.
WorkerCompositeFail ==
    /\ wpc = "composite"
    /\ wimg' = Placeholder(wjob.w, wjob.h)
    /\ owed' = wjob.id
    /\ wpc' = "render"
    /\ UNCHANGED offPipe
    /\ UNCHANGED <<qVars, ctlVars, stateVars, uiVars, wjob, wpx, wframe,
                   nOps, nSubmitted, dequeued, superseded, lastPosted,
                   discarded, dropped, ccLog>>

\* A worker that gives up the job in hand when a newer one is waiting.
WorkerRenderDropsStale ==
    /\ wpc = "render"
    /\ IF req_q # <<>>
       THEN /\ wjob' = NoneJob /\ wpx' = <<0, 0>> /\ wimg' = NoImage
            /\ wframe' = NoFrame /\ wpc' = "loop"
            /\ last_render_ms' = last_render_ms
       ELSE /\ wframe' = Frame(wjob.id, wjob.w, wjob.h, render(wimg, wjob.w, wjob.h))
            /\ last_render_ms' = 1
            /\ wpc' = "post_lock"
            /\ UNCHANGED <<wjob, wpx, wimg>>
    /\ UNCHANGED offPipe
    /\ UNCHANGED <<qVars, ctlVars, lat, lon, z, uiVars, histVars>>

\* lines 167-176: render the glyph rows, record the latency, build the Frame.
WorkerRender ==
    /\ wpc = "render"
    /\ wframe' = Frame(wjob.id, wjob.w, wjob.h, render(wimg, wjob.w, wjob.h))
    /\ last_render_ms' = 1
    /\ wpc' = "post_lock"
    /\ UNCHANGED offPipe
    /\ UNCHANGED <<qVars, ctlVars, lat, lon, z, uiVars, wjob, wpx, wimg,
                   histVars>>

\* lines 167-174 when renderer.render raises: nothing in _render_worker
\* catches it, the exception ends the thread.
WorkerRenderFail ==
    /\ wpc = "render"
    /\ wpc' = "crashed"
    /\ UNCHANGED offPipe
    /\ UNCHANGED <<qVars, ctlVars, stateVars, uiVars, wjob, wpx, wimg, wframe,
                   histVars>>

\* line 178: enter `with self._res_q.mutex`.
WorkerPostLock ==
    /\ wpc = "post_lock" /\ resMutex = "free"
    /\ resMutex' = "worker"
    /\ wpc' = "post_clear"
    /\ UNCHANGED offPipe
    /\ UNCHANGED <<req_q, res_q, reqMutex, stop, ctlVars, stateVars, uiVars,
                   wjob, wpx, wimg, wframe, histVars>>

\* Mutant: the worker does not clear _res_q before it posts.
WorkerPostNoClear ==
    /\ wpc = "post_clear" /\ resMutex = "worker"
    /\ resMutex' = "free"
    /\ wpc' = "post_put"
    /\ UNCHANGED offPipe
    /\ UNCHANGED <<req_q, res_q, reqMutex, stop, ctlVars, stateVars, uiVars,
                   wjob, wpx, wimg, wframe, histVars>>

\* line 179: clear the deque and leave the with block.
WorkerPostClear ==
    /\ wpc = "post_clear" /\ resMutex = "worker"
    /\ res_q' = <<>>
    /\ discarded' = discarded \cup Ids(res_q)
    /\ resMutex' = "free"
    /\ wpc' = "post_put"
    /\ UNCHANGED offPipe
    /\ UNCHANGED <<req_q, reqMutex, stop, ctlVars, stateVars, uiVars,
                   wjob, wpx, wimg, wframe, nOps, nSubmitted, dequeued,
                   superseded, lastPosted, owed, dropped, ccLog>>

\* lines 180-187: put_nowait(frame), queue.Full swallowed; app.invalidate();
\* back to the head of the loop, the job's locals dead.
WorkerPostPut ==
    /\ wpc = "post_put" /\ resMutex = "free"
    /\ IF Len(res_q) < ResMaxSize
       THEN /\ res_q' = Append(res_q, wframe)
            /\ owed' = IF owed = wframe.id THEN 0 ELSE owed
            /\ dropped' = dropped
       ELSE /\ res_q' = res_q
            /\ owed' = owed
            /\ dropped' = dropped \cup {"res"}
    /\ lastPosted' = wframe.id
    /\ wjob' = NoneJob /\ wpx' = <<0, 0>> /\ wimg' = NoImage /\ wframe' = NoFrame
    /\ wpc' = "loop"
    /\ UNCHANGED offPipe
    /\ UNCHANGED <<req_q, reqMutex, resMutex, stop, ctlVars, stateVars, uiVars,
                   nOps, nSubmitted, dequeued, superseded, discarded, ccLog>>

\* ---------------------------------------------------------- specifications

UIStep ==
    \/ CreateContentCall \/ DrainGet \/ DrainEmpty
    \/ EnqueueLock \/ EnqueueClear \/ EnqueuePut
    \/ Pan \/ Zoom
    \/ Shutdown \/ ShutdownLock \/ ShutdownClear \/ ShutdownPut \/ ShutdownJoin

\* The steps of the worker that wait for nothing but the scheduler.
WorkerQuickStep ==
    \/ WorkerLoop \/ WorkerGet \/ WorkerGetTimeout \/ WorkerCheck
    \/ WorkerPostLock \/ WorkerPostClear \/ WorkerPostPut

\* The steps in which the worker computes or waits for tiles.
WorkerRenderStep == WorkerCompositeOk \/ WorkerCompositeFail \/ WorkerRender

WorkerStep == WorkerQuickStep \/ WorkerRenderStep

Next == UIStep \/ WorkerStep

\* The pipeline; compositing may raise, the glyph renderer does not.
Spec == Init /\ [][Next]_vars

\* The pipeline with a glyph renderer that may raise.
NextFaults == Next \/ WorkerRenderFail
SpecFaults == Init /\ [][NextFaults]_vars

\* The calls of the interactive loop, and the steps inside a call.
UICall == CreateContentCall \/ Pan \/ Zoom \/ Shutdown
UIBody ==
    \/ DrainGet \/ DrainEmpty
    \/ EnqueueLock \/ EnqueueClear \/ EnqueuePut
    \/ ShutdownLock \/ ShutdownClear \/ ShutdownPut \/ ShutdownJoin

\* The pipeline with both threads scheduled fairly and every render ending:
\* a call that has begun goes on, and the worker takes its next step.
SpecFair == Spec /\ WF_vars(UIBody) /\ WF_vars(WorkerStep)

\* The state object and the interactive loop on their own: MapState is built
\* from any of the configured centers, then its setters, pan, zoom and
\* create_content are called, and the jobs they submit stay in the slot.
InitState ==
    /\ PipeInitFrom(StateCenters)
    /\ CacheIdle /\ PruneIdle /\ RenderIdle /\ LockIdle /\ CompIdle /\ AccIdle

NextState ==
    \/ SetCenter \/ SetZoom \/ Pan \/ Zoom
    \/ CreateContentCall \/ DrainEmpty
    \/ EnqueueLock \/ EnqueueClear \/ EnqueuePut
SpecState == InitState /\ [][NextState]_vars

\* The Frame the worker makes of job id at w x h cells when compositing works.
FrameOf(id, w, h) ==
    Frame(id, w, h, render(Image(PxW(w), PxH(h), FALSE), w, h))

\* The pipeline some time into a session, in a viewport of one cell:
\* create_content has adopted the Frame of job 1 and shown it, and since then either nothing happened, or a
\* pan has left job 2 in the inbound slot, or two pans were made, the worker
\* has posted the Frame of job 2 and job 3 waits in the inbound slot.
InitHeld ==
    /\ reqMutex = "free" /\ resMutex = "free"
    /\ stop = FALSE
    /\ \E c \in StartCenters : lat = clamp_lat(c[1]) /\ lon = wrap_lon(c[2])
    /\ z = MinZoomLevel
    /\ \E w \in {1}, h \in {1} :
          /\ last_width = w /\ last_height = h /\ uw = w /\ uh = h
          /\ last_frame = FrameOf(1, w, h)
          /\ \/ /\ req_q = <<>> /\ res_q = <<>>
                /\ nSubmitted = 1 /\ lastPosted = 1
                /\ dequeued = [id |-> 1, latest |-> 1]
                /\ content = frame_content(last_frame, w, h)
                /\ ccLog = [w |-> w, h |-> h, held |-> last_frame,
                            job |-> NoneJob, lat |-> lat, lon |-> lon, z |-> z]
             \/ /\ req_q = <<Job(2, w, h, lat, lon, z)>> /\ res_q = <<>>
                /\ nSubmitted = 2 /\ lastPosted = 1
                /\ dequeued = [id |-> 1, latest |-> 1]
                /\ content = NoContent /\ ccLog = NoLog
             \/ /\ req_q = <<Job(3, w, h, lat, lon, z)>>
                /\ res_q = <<FrameOf(2, w, h)>>
                /\ nSubmitted = 3 /\ lastPosted = 2
                /\ dequeued = [id |-> 2, latest |-> 2]
                /\ content = NoContent /\ ccLog = NoLog
    /\ last_render_ms = 1
    /\ upc = "idle" /\ ulatest = NoFrame
    /\ uitem = NoneJob /\ ucont = "idle"
    /\ wpc = "loop" /\ wjob = NoneJob /\ wpx = <<0, 0>>
    /\ wimg = NoImage /\ wframe = NoFrame
    /\ nOps = 0
    /\ superseded = {} /\ discarded = {}
    /\ owed = 0 /\ dropped = {}
    /\ CacheIdle /\ PruneIdle /\ RenderIdle /\ LockIdle /\ CompIdle /\ AccIdle

SpecHeld == InitHeld /\ [][Next]_vars

\* The pipeline with calls that arrive after shutdown has returned.
NextLate == Next \/ LateRequest
SpecLate == Init /\ [][NextLate]_vars

\* A session that is not shut down, in which the UI repaints after each
\* invalidate of the worker, a call that has begun goes on, the worker is
\* scheduled and every composite and render ends.  Each thread is treated
\* strongly fairly: what it can do again and again, it does.
UISteps ==
    \/ DrainGet \/ DrainEmpty
    \/ EnqueueLock \/ EnqueueClear \/ EnqueuePut
NextSession ==
    \/ CreateContentCall \/ Pan \/ Zoom \/ Repaint
    \/ UISteps \/ WorkerStep
SpecSession ==
    /\ Init /\ [][NextSession]_vars
    /\ SF_vars(Repaint) /\ SF_vars(UISteps) /\ SF_vars(WorkerStep)

\* One job in the worker's hands, of any cell size a terminal can have: the
\* worker has just dequeued the job submitted by the first create_content.
InitPx ==
    /\ req_q = <<>> /\ res_q = <<>>
    /\ reqMutex = "free" /\ resMutex = "free"
    /\ stop = FALSE
    /\ \E c \in StartCenters : lat = clamp_lat(c[1]) /\ lon = wrap_lon(c[2])
    /\ z = MinZoomLevel
    /\ \E w \in 1..MaxPxCols, h \in 1..MaxPxRows :
          /\ last_width = w /\ last_height = h /\ uw = w /\ uh = h
          /\ wjob = Job(1, w, h, lat, lon, z)
    /\ last_frame = NoFrame
    /\ last_render_ms = 0
    /\ upc = "idle" /\ ulatest = NoFrame
    /\ uitem = NoneJob /\ ucont = "idle" /\ content = NoContent
    /\ wpc = "check" /\ wpx = <<0, 0>>
    /\ wimg = NoImage /\ wframe = NoFrame
    /\ nOps = 1 /\ nSubmitted = 1 /\ dequeued = [id |-> 1, latest |-> 1]
    /\ superseded = {} /\ lastPosted = 0 /\ discarded = {}
    /\ owed = 0 /\ dropped = {}
    /\ ccLog = NoLog
    /\ CacheIdle /\ PruneIdle /\ RenderIdle /\ LockIdle /\ CompIdle /\ AccIdle

\* The worker's compositing of that job.
NextPx == WorkerCheck \/ WorkerCompositeOk \/ WorkerCompositeFail
SpecPx == InitPx /\ [][NextPx]_vars

\* ------------------------------------------------------------ the tile cache

\* The rest of the cache's state a call leaves alone.
TileLocals == <<tile, nCalls, persisted, retries, levels>>

\* A call returns to the program: the last result is kept for the caller.
Finish(kind, v) ==
    /\ tret' = [kind |-> kind, img |-> v]
    /\ tcall' = "none" /\ ozpc' = "none" /\ targ' = NoTile /\ tpc' = "idle"
    /\ timg' = NoImage /\ ozstep' = ozstep

\* Lines 135-142: the loop goes on to step s; past overzoom_levels the loop
\* is over and line 156 returns None, parent_z < 0 breaks out to line 156.
ToAncestor(s) ==
    IF s > levels \/ tile.z - s < 0
    THEN Finish("empty", NoImage)
    ELSE /\ ozpc' = "parent" /\ ozstep' = s /\ targ' = Ancestor(tile, s)
         /\ tpc' = "enter" /\ timg' = NoImage
         /\ UNCHANGED <<tcall, tret>>

\* A loop that is left at the first ancestor that is not available.
ExactReturnsBreaksAtMiss(v) ==
    IF tcall = "exact"
    THEN Finish(IF v = NoImage THEN "empty" ELSE "raster", v)
    ELSE IF ozpc = "self"
    THEN IF v # NoImage
         THEN Finish("raster", v)
         ELSE ToAncestor(1)
    ELSE IF v = NoImage
         THEN Finish("empty", NoImage)
         ELSE Finish("raster", Overzoom(v, tile, ozstep))

\* get_tile_exact returns v (NoImage for None).  Called directly, that ends
\* the call.  Inside get_tile_with_overzoom, lines 131-156: a raster for the
\* index itself is returned as it is (line 133) and None starts the loop at
\* step 1; an ancestor's None continues with the next step (line 144), its
\* raster is cropped, upscaled and returned (lines 146-153).
ExactReturns(v) ==
    IF tcall = "exact"
    THEN Finish(IF v = NoImage THEN "empty" ELSE "raster", v)
    ELSE IF ozpc = "self"
    THEN IF v # NoImage
         THEN Finish("raster", v)
         ELSE ToAncestor(1)
    ELSE IF v = NoImage
         THEN ToAncestor(ozstep + 1)
         ELSE Finish("raster", Overzoom(v, tile, ozstep))

\* An exception leaves get_tile_exact; get_tile_with_overzoom has no handler
\* around lines 131 and 142, so it leaves that as well.
ExactRaises == Finish("raised", NoImage)

StartLog(op) ==
    [NoTLog EXCEPT !.op = op, !.file0 = files[tile],
                   !.parent0 = IF tile.z >= 1 THEN files[Parent(tile)] ELSE NoFile,
                   !.persisted0 = persisted, !.files0 = files]

\* The compositor (or a test) calls get_tile_exact(z, x, y).
TileCallExact ==
    /\ tcall = "none" /\ tile # NoTile /\ nCalls < MaxCalls
    /\ tcall' = "exact" /\ ozpc' = "none" /\ targ' = tile /\ tpc' = "enter"
    /\ levels' = 0 /\ ozstep' = 0
    /\ tret' = NoRet /\ tlog' = StartLog("exact") /\ nCalls' = nCalls + 1
    /\ hget' = NoGet
    /\ UNCHANGED <<tile, files, dirs, timg, persisted, retries>>
    /\ UNCHANGED offCache

\* The compositor calls get_tile_with_overzoom(z, x, y, 1); line 131.
TileCallOverzoom ==
    /\ tcall = "none" /\ tile # NoTile /\ nCalls < MaxCalls
    /\ tcall' = "overzoom" /\ ozpc' = "self" /\ targ' = tile /\ tpc' = "enter"
    /\ levels' = OverzoomLevels /\ ozstep' = 0
    /\ tret' = NoRet /\ tlog' = StartLog("overzoom") /\ nCalls' = nCalls + 1
    /\ hget' = NoGet
    /\ UNCHANGED <<tile, files, dirs, timg, persisted, retries>>
    /\ UNCHANGED offCache

\* get_tile_with_overzoom(z, x, y, overzoom_levels) with any overzoom_levels.
TileCallOverzoomLevels ==
    /\ tcall = "none" /\ tile # NoTile /\ nCalls < 1
    /\ tcall' = "overzoom" /\ ozpc' = "self" /\ targ' = tile /\ tpc' = "enter"
    /\ \E lv \in 0..MaxLevels : levels' = lv
    /\ ozstep' = 0
    /\ tret' = NoRet /\ tlog' = StartLog("overzoom") /\ nCalls' = nCalls + 1
    /\ hget' = NoGet
    /\ UNCHANGED <<tile, files, dirs, timg, persisted, retries>>
    /\ UNCHANGED offCache

\* A get_tile_exact that prepares the path whatever the index.
TileEnterNoCheck ==
    /\ tpc = "enter"
    /\ tpc' = "path"
    /\ UNCHANGED <<tcall, ozpc, ozstep, targ, timg, tret>>
    /\ UNCHANGED <<files, dirs, tlog, TileLocals>>
    /\ UNCHANGED hget
    /\ UNCHANGED offCache

\* get_tile_exact, lines 95-97: the range check.
TileEnter ==
    /\ tpc = "enter"
    /\ IF InRange(targ)
       THEN /\ tpc' = "path"
            /\ UNCHANGED <<tcall, ozpc, ozstep, targ, timg, tret>>
       ELSE ExactReturns(NoImage)
    /\ UNCHANGED <<files, dirs, tlog, TileLocals>>
    /\ UNCHANGED hget
    /\ UNCHANGED offCache

\* Line 99, _tile_path: mkdir(parents=True, exist_ok=True) of root/z/x.
TilePath ==
    /\ tpc = "path"
    /\ dirs' = dirs \cup {<<targ.z, targ.x>>}
    /\ tlog' = [tlog EXCEPT !.fs = @ + 1]
    /\ tpc' = "local"
    /\ UNCHANGED <<files, tcall, ozpc, ozstep, targ, timg, tret, TileLocals>>
    /\ UNCHANGED hget
    /\ UNCHANGED offCache

\* Line 99, _tile_path: the directory is missing and mkdir raises (read-only
\* or full disk, a file in the way).  Nothing catches it.
TilePathFail ==
    /\ tpc = "path" /\ <<targ.z, targ.x>> \notin dirs
    /\ tlog' = [tlog EXCEPT !.fs = @ + 1]
    /\ ExactRaises
    /\ UNCHANGED <<files, dirs, TileLocals>>
    /\ UNCHANGED hget
    /\ UNCHANGED offCache

\* A decode failure that goes on to the network with the file left in place.
TileLocalNoEvict ==
    /\ tpc = "local"
    /\ IF files[targ] = NoFile
       THEN /\ tpc' = "url" /\ tlog' = [tlog EXCEPT !.fs = @ + 1]
            /\ UNCHANGED <<tcall, ozpc, ozstep, targ, timg, tret>>
       ELSE IF files[targ] = CorruptFile
       THEN /\ tpc' = "url"
            /\ tlog' = [tlog EXCEPT !.fs = @ + 2,
                                    !.decodeFailed = @ \/ targ = tile]
            /\ UNCHANGED <<tcall, ozpc, ozstep, targ, timg, tret>>
       ELSE /\ tlog' = [tlog EXCEPT !.fs = @ + 2]
            /\ ExactReturns(files[targ].img)
    /\ UNCHANGED <<files, dirs, TileLocals>>
    /\ UNCHANGED hget
    /\ UNCHANGED offCache

\* Lines 100-103: p.exists(), and the decode of an existing file.
TileLocal ==
    /\ tpc = "local"
    /\ IF files[targ] = NoFile
       THEN /\ tpc' = "url" /\ tlog' = [tlog EXCEPT !.fs = @ + 1]
            /\ UNCHANGED <<tcall, ozpc, ozstep, targ, timg, tret>>
       ELSE IF files[targ] = CorruptFile
       THEN /\ tpc' = "evict"
            /\ tlog' = [tlog EXCEPT !.fs = @ + 2,
                                    !.decodeFailed = @ \/ targ = tile]
            /\ UNCHANGED <<tcall, ozpc, ozstep, targ, timg, tret>>
       ELSE /\ tlog' = [tlog EXCEPT !.fs = @ + 2]
            /\ ExactReturns(files[targ].img)
    /\ UNCHANGED <<files, dirs, TileLocals>>
    /\ UNCHANGED hget
    /\ UNCHANGED offCache

\* Lines 104-106: the decode raised; p.unlink() removes the file.
TileEvict ==
    /\ tpc = "evict"
    /\ files' = [files EXCEPT ![targ] = NoFile]
    /\ persisted' = (persisted /\ targ # tile)
    /\ tlog' = [tlog EXCEPT !.fs = @ + 1, !.evicted = @ \/ targ = tile]
    /\ tpc' = "url"
    /\ UNCHANGED <<tile, dirs, tcall, ozpc, ozstep, targ, timg, tret, nCalls, retries, levels>>
    /\ UNCHANGED hget
    /\ UNCHANGED offCache

\* Lines 106-108: p.unlink() raises (the file is still open, or protected);
\* the handler passes and the file stays.
TileEvictFail ==
    /\ tpc = "evict"
    /\ tlog' = [tlog EXCEPT !.fs = @ + 1]
    /\ tpc' = "url"
    /\ UNCHANGED <<files, dirs, tcall, ozpc, ozstep, targ, timg, tret, TileLocals>>
    /\ UNCHANGED hget
    /\ UNCHANGED offCache

\* Line 110: url_template.format(z=z, x=x, y=y) with a template that names
\* only z, x and y.
TileUrl ==
    /\ tpc = "url"
    /\ tpc' = "fetch" /\ hget' = NoGet
    /\ UNCHANGED <<files, dirs, tcall, ozpc, ozstep, targ, timg, tret, tlog, TileLocals>>
    /\ UNCHANGED offCache

\* Line 110: the configured template has another field (such as {s}) or a
\* stray brace; format raises KeyError / IndexError / ValueError outside
\* the try of line 111.
TileUrlFail ==
    /\ tpc = "url"
    /\ ExactRaises
    /\ UNCHANGED <<files, dirs, tlog, TileLocals>>
    /\ UNCHANGED hget
    /\ UNCHANGED offCache

\* One more HTTP attempt of the session.get in hand has ended with `how`.
Attempt(how) ==
    [hget EXCEPT !.natt = @ + 1, !.http = @ + 1, !.last = how]

\* The session.get has returned or raised after an attempt that ended with
\* `how`: no request is in hand any more.
Ended(how) == [NoGet EXCEPT !.last = how]

\* Retry.total before the attempt about to be made: retries less the
\* re-attempts already spent on this request.
Total == retries - hget.natt

\* A re-attempt that is granted though Retry.total is used up.
TileFetchRetryOneMore ==
    /\ tpc = "fetch"
    /\ Total >= 0
    /\ \E how \in Reattempted : hget' = Attempt(how)
    /\ UNCHANGED <<files, dirs, tcall, ozpc, ozstep, targ, tpc, timg, tret, tlog, TileLocals>>
    /\ UNCHANGED offCache

\* Line 112 inside session.get: the attempt ends with a connection or read
\* error, a status of status_forcelist (line 67) or a 413 with Retry-After,
\* and Retry.total is not used up: the adapter sleeps the backoff and
\* attempts the same request again.
TileFetchRetry ==
    /\ tpc = "fetch"
    /\ Total >= 1
    /\ \E how \in Reattempted : hget' = Attempt(how)
    /\ UNCHANGED <<files, dirs, tcall, ozpc, ozstep, targ, tpc, timg, tret, tlog, TileLocals>>
    /\ UNCHANGED offCache

\* Line 112 inside session.get: the attempt is answered by a redirect, which
\* session.get follows (allow_redirects) with a new request through the same
\* adapter, so with the whole of Retry.total again.
TileFetchRedirect ==
    /\ tpc = "fetch"
    /\ hget.hops < MaxRedirects
    /\ hget' = [Attempt("redirect") EXCEPT !.natt = 0, !.hops = @ + 1]
    /\ UNCHANGED <<files, dirs, tcall, ozpc, ozstep, targ, tpc, timg, tret, tlog, TileLocals>>
    /\ UNCHANGED offCache

\* Lines 112-114: session.get answers 200 with a body that decodes.
TileFetchOk ==
    /\ tpc = "fetch"
    /\ hget' = Ended("ok")
    /\ \E size \in TileSizes : timg' = Raster(size)
    /\ tlog' = [tlog EXCEPT !.net = @ + 1,
                            !.fetches = Append(@, [t |-> targ, ok |-> TRUE])]
    /\ tpc' = "persist"
    /\ UNCHANGED <<files, dirs, tcall, ozpc, ozstep, targ, tret, TileLocals>>
    /\ UNCHANGED offCache

\* The ways the session.get of line 112 ends without a raster: another
\* status, an empty body or a body that does not decode; a connection error
\* or forcelist status with Retry.total used up (session.get raises); a 413
\* with Retry-After when Retry.total is 0 (the response is handed back); a
\* redirect beyond max_redirects (session.get raises).
Failure(how) ==
    \/ how \in FinalBad
    \/ how \in Reattempted /\ Total < 1
    \/ how = "redirect" /\ hget.hops >= MaxRedirects

\* A failed fetch that leaves the received body in the tile's file.
TileFetchFailWritesBody ==
    /\ tpc = "fetch"
    /\ \E how \in FinalBad \cup Reattempted \cup {"redirect"} :
          Failure(how) /\ hget' = Ended(how)
    /\ tlog' = [tlog EXCEPT !.net = @ + 1,
                            !.fetches = Append(@, [t |-> targ, ok |-> FALSE])]
    /\ files' = [files EXCEPT ![targ] = CorruptFile]
    /\ ExactReturns(NoImage)
    /\ UNCHANGED <<dirs, TileLocals>>
    /\ UNCHANGED offCache

\* Lines 112-114 and 118-120: session.get raises once its retries are used
\* up, or answers another status or an empty body, or the body does not
\* decode: None.
TileFetchFail ==
    /\ tpc = "fetch"
    /\ \E how \in FinalBad \cup Reattempted \cup {"redirect"} :
          Failure(how) /\ hget' = Ended(how)
    /\ tlog' = [tlog EXCEPT !.net = @ + 1,
                            !.fetches = Append(@, [t |-> targ, ok |-> FALSE])]
    /\ ExactReturns(NoImage)
    /\ UNCHANGED <<files, dirs, TileLocals>>
    /\ UNCHANGED offCache

\* A network success that returns the raster without saving it.
TilePersistSkips ==
    /\ tpc = "persist"
    /\ persisted' = (persisted \/ targ = tile)
    /\ ExactReturns(timg)
    /\ UNCHANGED <<tile, files, dirs, nCalls, tlog, retries, levels>>
    /\ UNCHANGED hget
    /\ UNCHANGED offCache

\* Lines 115-117: img.save(p, "PNG") under the lock, return img.
TilePersist ==
    /\ tpc = "persist"
    /\ files' = [files EXCEPT ![targ] = ValidFile(timg)]
    /\ persisted' = (persisted \/ targ = tile)
    /\ tlog' = [tlog EXCEPT !.fs = @ + 1]
    /\ ExactReturns(timg)
    /\ UNCHANGED <<tile, dirs, nCalls, retries, levels>>
    /\ UNCHANGED hget
    /\ UNCHANGED offCache

\* Lines 116 and 118-120: img.save raises (disk full); the handler of line
\* 118 passes and None is returned.  The file is as it was, or a part of it
\* was written, or PIL removed what it had created.
TilePersistFail ==
    /\ tpc = "persist"
    /\ \E left \in {files[targ], CorruptFile, NoFile} :
          files' = [files EXCEPT ![targ] = left]
    /\ persisted' = (persisted /\ targ # tile)
    /\ tlog' = [tlog EXCEPT !.fs = @ + 1]
    /\ ExactReturns(NoImage)
    /\ UNCHANGED <<tile, dirs, nCalls, retries, levels>>
    /\ UNCHANGED hget
    /\ UNCHANGED offCache

\* Between calls a followed file is damaged (a torn write, a bad sector).
EnvCorrupt ==
    /\ tcall = "none" /\ tile # NoTile
    /\ \E t \in DOMAIN files :
          /\ files[t].st = "valid"
          /\ files' = [files EXCEPT ![t] = CorruptFile]
          /\ persisted' = (persisted /\ t # tile)
    /\ tret' = NoRet /\ tlog' = NoTLog /\ hget' = NoGet
    /\ UNCHANGED <<tile, dirs, tcall, ozpc, ozstep, targ, tpc, timg, nCalls, retries, levels>>
    /\ UNCHANGED offCache

\* Between calls a followed file is removed (prune, line 184).
EnvRemove ==
    /\ tcall = "none" /\ tile # NoTile
    /\ \E t \in DOMAIN files :
          /\ files[t] # NoFile
          /\ files' = [files EXCEPT ![t] = NoFile]
          /\ persisted' = (persisted /\ t # tile)
    /\ tret' = NoRet /\ tlog' = NoTLog /\ hget' = NoGet
    /\ UNCHANGED <<tile, dirs, tcall, ozpc, ozstep, targ, tpc, timg, nCalls, retries, levels>>
    /\ UNCHANGED offCache

\* A TileCache after __init__ over a cache directory that holds any files
\* for one index and its parent; the pipeline is not running.
InitCache ==
    /\ PipeInit /\ z = MinZoomLevel
    /\ \E zz \in 0..MaxTileZoom :
          \E x \in -1..Pow2(zz), y \in -1..Pow2(zz) : tile = Tile(zz, x, y)
    /\ files \in [Followed(tile) -> FileValues]
    /\ \A t \in Followed(tile) : ~InRange(t) => files[t] = NoFile
    /\ dirs = {<<t.z, t.x>> : t \in {u \in Followed(tile) : files[u] # NoFile}}
    /\ tcall = "none" /\ ozpc = "none" /\ targ = NoTile /\ tpc = "idle"
    /\ levels = 0 /\ ozstep = 0
    /\ timg = NoImage /\ tret = NoRet
    /\ nCalls = 0 /\ persisted = FALSE /\ tlog = NoTLog
    /\ retries \in 0..MaxRetries /\ hget = NoGet
    /\ PruneIdle /\ RenderIdle /\ LockIdle /\ CompIdle /\ AccIdle

TileCall == TileCallExact \/ TileCallOverzoom
TileStep ==
    \/ TileEnter \/ TilePath \/ TileLocal \/ TileEvict \/ TileUrl
    \/ TileFetchRetry \/ TileFetchRedirect
    \/ TileFetchOk \/ TileFetchFail \/ TilePersist
TileEnv == EnvCorrupt \/ EnvRemove

\* The cache over a disk that works and with a well-formed template: files
\* may be missing or damaged, the network may fail.
NextCache == TileCall \/ TileStep \/ TileEnv
SpecCache == InitCache /\ [][NextCache]_vars

\* The same with a disk whose operations may raise and a template that may
\* be malformed.
TileFault == TilePathFail \/ TileEvictFail \/ TileUrlFail \/ TilePersistFail
NextCacheFaults == NextCache \/ TileFault
SpecCacheFaults == InitCache /\ [][NextCacheFaults]_vars

\* One get_tile_with_overzoom call, with any overzoom_levels, for an in-range
\* index over a cache directory that holds any files for the index and its
\* ancestors; the disk works and the template is well-formed.
InitOverzoom ==
    /\ PipeInit /\ z = MinZoomLevel
    /\ \E zz \in 0..MaxLevels :
          \E x \in 0..(Pow2(zz) - 1), y \in 0..(Pow2(zz) - 1) : tile = Tile(zz, x, y)
    /\ files \in [FollowedTo(tile, MaxLevels) -> FileValues]
    /\ dirs = {<<t.z, t.x>> : t \in {u \in FollowedTo(tile, MaxLevels) : files[u] # NoFile}}
    /\ tcall = "none" /\ ozpc = "none" /\ targ = NoTile /\ tpc = "idle"
    /\ levels = 0 /\ ozstep = 0
    /\ timg = NoImage /\ tret = NoRet
    /\ nCalls = 0 /\ persisted = FALSE /\ tlog = NoTLog
    /\ retries = MaxRetries /\ hget = NoGet
    /\ PruneIdle /\ RenderIdle /\ LockIdle /\ CompIdle /\ AccIdle

\* The same for any index, in the grid of its zoom or up to OutMargin
\* columns or rows outside it on either side; the cache directory may hold
\* files under the names of the indices outside the grid too.
InitOverzoomAny ==
    /\ PipeInit /\ z = MinZoomLevel
    /\ \E zz \in 0..MaxLevels :
          \E x \in (-OutMargin)..(Pow2(zz) - 1 + OutMargin),
             y \in (-OutMargin)..(Pow2(zz) - 1 + OutMargin) : tile = Tile(zz, x, y)
    /\ files \in [FollowedTo(tile, MaxLevels) -> {NoFile, CorruptFile, ValidFile(Raster(256))}]
    /\ dirs = {<<t.z, t.x>> : t \in {u \in FollowedTo(tile, MaxLevels) : files[u] # NoFile}}
    /\ tcall = "none" /\ ozpc = "none" /\ targ = NoTile /\ tpc = "idle"
    /\ levels = 0 /\ ozstep = 0
    /\ timg = NoImage /\ tret = NoRet
    /\ nCalls = 0 /\ persisted = FALSE /\ tlog = NoTLog
    /\ retries = MaxRetries /\ hget = NoGet
    /\ PruneIdle /\ RenderIdle /\ LockIdle /\ CompIdle /\ AccIdle

\* Every request is answered at the first attempt, well or badly.
NextOverzoom ==
    \/ TileCallOverzoomLevels
    \/ TileEnter \/ TilePath \/ TileLocal \/ TileEvict \/ TileUrl
    \/ TileFetchOk \/ TileFetchFail \/ TilePersist
SpecOverzoom == InitOverzoom /\ [][NextOverzoom]_vars
SpecOverzoomAny == InitOverzoomAny /\ [][NextOverzoom]_vars

\* ------------------------------------------- the tile cache, several threads

\* Lines 95-99 touch neither the file nor the lock (range check, mkdir); the
\* call begins at the existence check.
LCall(t) ==
    /\ lpc[t] \in {"idle", "done"} /\ lcalls[t] < MaxLookups
    /\ lpc' = [lpc EXCEPT ![t] = "exists"]
    /\ lcalls' = [lcalls EXCEPT ![t] = @ + 1]
    /\ lret' = [lret EXCEPT ![t] = "none"]
    /\ UNCHANGED <<lock, lfile, lwriter>>
    /\ UNCHANGED offLock

\* Line 100: p.exists(), with the lock not taken.
LExists(t) ==
    /\ lpc[t] = "exists"
    /\ lpc' = [lpc EXCEPT ![t] = IF lfile = "none" THEN "url" ELSE "acquire_read"]
    /\ UNCHANGED <<lock, lfile, lret, lcalls, lwriter>>
    /\ UNCHANGED offLock

\* Line 102: with self._lock.
LAcquireRead(t) ==
    /\ lpc[t] = "acquire_read" /\ lock = 0
    /\ lock' = t
    /\ lpc' = [lpc EXCEPT ![t] = "read"]
    /\ UNCHANGED <<lfile, lret, lcalls, lwriter>>
    /\ UNCHANGED offLock

\* A decode whose failure leaves the lock taken.
LReadKeepsLock(t) ==
    /\ lpc[t] = "read" /\ lock = t
    /\ IF lfile = "valid"
       THEN /\ lpc' = [lpc EXCEPT ![t] = "done"]
            /\ lret' = [lret EXCEPT ![t] = "raster"]
            /\ lock' = 0
       ELSE /\ lpc' = [lpc EXCEPT ![t] = "unlink"]
            /\ UNCHANGED <<lret, lock>>
    /\ UNCHANGED <<lfile, lcalls, lwriter>>
    /\ UNCHANGED offLock

\* Lines 102-104: Image.open(p).convert("RGB") under the lock.  The return
\* of line 103 and the exception (an undecodable file, or a file removed
\* since line 100) both leave the with block, which releases the lock.
LRead(t) ==
    /\ lpc[t] = "read" /\ lock = t
    /\ lock' = 0
    /\ IF lfile = "valid"
       THEN /\ lpc' = [lpc EXCEPT ![t] = "done"]
            /\ lret' = [lret EXCEPT ![t] = "raster"]
       ELSE /\ lpc' = [lpc EXCEPT ![t] = "unlink"]
            /\ UNCHANGED lret
    /\ UNCHANGED <<lfile, lcalls, lwriter>>
    /\ UNCHANGED offLock

\* Lines 105-108: p.unlink() in the handler, with the lock not taken; a
\* missing file raises and is passed over.
LUnlink(t) ==
    /\ lpc[t] = "unlink"
    /\ lfile' = "none"
    /\ lwriter' = 0
    /\ lpc' = [lpc EXCEPT ![t] = "url"]
    /\ UNCHANGED <<lock, lret, lcalls>>
    /\ UNCHANGED offLock

\* Lines 110-112: the URL is built and session.get is entered.
LSend(t) ==
    /\ lpc[t] = "url"
    /\ lpc' = [lpc EXCEPT ![t] = "get"]
    /\ UNCHANGED <<lock, lfile, lret, lcalls, lwriter>>
    /\ UNCHANGED offLock

\* Lines 112-114: session.get returns 200 and the body decodes.
LGetOk(t) ==
    /\ lpc[t] = "get"
    /\ lpc' = [lpc EXCEPT ![t] = "acquire_write"]
    /\ UNCHANGED <<lock, lfile, lret, lcalls, lwriter>>
    /\ UNCHANGED offLock

\* Lines 112-114 and 118-120: the fetch fails; None.
LGetFail(t) ==
    /\ lpc[t] = "get"
    /\ lpc' = [lpc EXCEPT ![t] = "done"]
    /\ lret' = [lret EXCEPT ![t] = "empty"]
    /\ UNCHANGED <<lock, lfile, lcalls, lwriter>>
    /\ UNCHANGED offLock

\* Line 115: with self._lock.
LAcquireWrite(t) ==
    /\ lpc[t] = "acquire_write" /\ lock = 0
    /\ lock' = t
    /\ lpc' = [lpc EXCEPT ![t] = "save"]
    /\ UNCHANGED <<lfile, lret, lcalls, lwriter>>
    /\ UNCHANGED offLock

\* Lines 116-117: img.save(p, "PNG") under the lock, then return img.
LSave(t) ==
    /\ lpc[t] = "save" /\ lock = t
    /\ lfile' = "valid" /\ lwriter' = t
    /\ lock' = 0
    /\ lpc' = [lpc EXCEPT ![t] = "done"]
    /\ lret' = [lret EXCEPT ![t] = "raster"]
    /\ UNCHANGED lcalls
    /\ UNCHANGED offLock

\* A TileCache over a directory in which the index has any file or none,
\* before the first call of any thread.
InitLock ==
    /\ PipeInit /\ CacheIdle /\ PruneIdle /\ RenderIdle /\ CompIdle /\ AccIdle
    /\ lpc = [t \in Threads |-> "idle"] /\ lock = 0
    /\ lfile \in {"none", "corrupt", "valid"}
    /\ lret = [t \in Threads |-> "none"]
    /\ lcalls = [t \in Threads |-> 0] /\ lwriter = 0

NextLock ==
    \E t \in Threads :
       \/ LCall(t) \/ LExists(t) \/ LAcquireRead(t) \/ LRead(t) \/ LUnlink(t)
       \/ LSend(t) \/ LGetOk(t) \/ LGetFail(t) \/ LAcquireWrite(t) \/ LSave(t)
SpecLock == InitLock /\ [][NextLock]_vars

\* -------------------------------------------------------------------- prune

\* A scan that goes on unless the total is below max_bytes.
PruneScanStrict ==
    /\ ppc = "scan"
    /\ total' = SumSizes(pfiles, Len(pfiles))
    /\ ppc' = IF SumSizes(pfiles, Len(pfiles)) < max_bytes THEN "done" ELSE "sort"
    /\ UNCHANGED <<pfiles, max_bytes, watermark, target, todo, gone, pfault>>
    /\ UNCHANGED offPrune

\* prune, lines 166-176: walk the directory, add up the sizes, and return
\* when the total is within max_bytes.
PruneScan ==
    /\ ppc = "scan"
    /\ total' = SumSizes(pfiles, Len(pfiles))
    /\ ppc' = IF SumSizes(pfiles, Len(pfiles)) <= max_bytes THEN "done" ELSE "sort"
    /\ UNCHANGED <<pfiles, max_bytes, watermark, target, todo, gone, pfault>>
    /\ UNCHANGED offPrune

\* Lines 177-178: sort by modification time; target = int(max_bytes * watermark).
PruneSort ==
    /\ ppc = "sort"
    /\ todo' = SortByMtime(pfiles)
    /\ target' = (max_bytes * watermark) \div 100
    /\ ppc' = "loop"
    /\ UNCHANGED <<pfiles, max_bytes, watermark, total, gone, pfault>>
    /\ UNCHANGED offPrune

\* Lines 179-185: the total is still above the target; unlink the next file.
PruneDelete ==
    /\ ppc = "loop" /\ todo # <<>> /\ total > target
    /\ pfiles' = [pfiles EXCEPT ![Head(todo)].there = FALSE]
    /\ total' = total - pfiles[Head(todo)].size
    /\ gone' = Append(gone, Head(todo))
    /\ todo' = Tail(todo)
    /\ UNCHANGED <<max_bytes, watermark, ppc, target, pfault>>
    /\ UNCHANGED offPrune

\* Lines 179-181: the loop ends, at the target or out of files.
PruneStop ==
    /\ ppc = "loop" /\ (todo = <<>> \/ total <= target)
    /\ ppc' = "done" /\ todo' = <<>>
    /\ UNCHANGED <<pfiles, max_bytes, watermark, total, target, gone, pfault>>
    /\ UNCHANGED offPrune

\* Lines 169-174 and 188-189: p.stat() raises for a listed file (it was
\* removed since os.walk listed it, or cannot be read); the exception leaves
\* the walk for the handler of line 188, which passes: prune returns.
PruneScanFail ==
    /\ ppc = "scan"
    /\ \E i \in DOMAIN pfiles :
          /\ pfault' = [phase |-> "scan", file |-> i]
          /\ total' = SumSizes(pfiles, i - 1)
    /\ ppc' = "done"
    /\ UNCHANGED <<pfiles, max_bytes, watermark, target, todo, gone>>
    /\ UNCHANGED offPrune

\* Lines 177 and 188-189: p.stat() raises inside the sort key; the exception
\* leaves files.sort for the handler of line 188: prune returns.
PruneSortFail ==
    /\ ppc = "sort"
    /\ \E i \in DOMAIN pfiles : pfault' = [phase |-> "sort", file |-> i]
    /\ ppc' = "done"
    /\ UNCHANGED <<pfiles, max_bytes, watermark, total, target, todo, gone>>
    /\ UNCHANGED offPrune

\* Lines 182-187: f.stat() or f.unlink() raises for the file the loop is at;
\* the handler of line 186 passes and the loop goes on to the next file.
PruneDeleteFail ==
    /\ ppc = "loop" /\ todo # <<>> /\ total > target
    /\ pfault.phase = "none"
    /\ pfault' = [phase |-> "loop", file |-> Head(todo)]
    /\ todo' = Tail(todo)
    /\ UNCHANGED <<pfiles, max_bytes, watermark, ppc, total, target, gone>>
    /\ UNCHANGED offPrune

\* prune(max_bytes, watermark) is called on a cache directory.
InitPrune ==
    /\ PipeInit /\ z = MinZoomLevel
    /\ CacheIdle /\ RenderIdle /\ LockIdle /\ CompIdle /\ AccIdle
    /\ \E n \in 0..MaxFiles :
          pfiles \in [1..n -> {PngFile(size, mtime) :
                                  size \in 0..MaxFileSize, mtime \in 1..MaxMtime}]
    /\ max_bytes \in 1..MaxBudget
    /\ watermark \in Watermarks
    /\ ppc = "scan"
    /\ total = 0 /\ target = 0 /\ todo = <<>> /\ gone = <<>>
    /\ pfault = NoFault

NextPrune == PruneScan \/ PruneSort \/ PruneDelete \/ PruneStop
SpecPrune == InitPrune /\ [][NextPrune]_vars

\* prune on a directory in which the stat or the unlink of one file raises.
PruneFault == PruneScanFail \/ PruneSortFail \/ PruneDeleteFail
NextPruneFaults == NextPrune \/ PruneFault
SpecPruneFaults == InitPrune /\ [][NextPruneFaults]_vars

\* ------------------------------------------------------------ the compositor

\* composite_from_tiles, lines 48-85, over a cache that has nothing for the
\* indices of `miss`: the loops fill the canvas, the window is cropped.  The
\* filters of lines 90-116 keep the size.
Composite ==
    /\ cpc = "call"
    /\ \E miss \in MissingSets(cin.z) :
          /\ cmiss' = miss
          /\ canvas' = [c \in Cells(cin) |-> Pasted(cin, miss, c)]
    /\ creq' = [c \in Cells(cin) |-> Requested(cin, c)]
    /\ cbox' = CropBox(cin)
    /\ cout' = Crop(Image(CanvasSize(cin)[1], CanvasSize(cin)[2], FALSE), CropBox(cin))
    /\ cpc' = "done"
    /\ UNCHANGED cin
    /\ UNCHANGED offComp

\* composite_from_tiles is called for a center in the first or the last tile
\* of the zoom or past it (tx and ty reach 2^z at lon = 180 and at the
\* southern limit), at the corner, the middle or the last pixel of that tile,
\* with any of the sizes.
InitComp ==
    /\ PipeInit /\ z = MinZoomLevel
    /\ CacheIdle /\ PruneIdle /\ RenderIdle /\ LockIdle /\ AccIdle
    /\ cpc = "call"
    /\ \E zz \in 0..MaxCompZoom :
          \E tx \in CenterTiles(zz), ty \in CenterTiles(zz) :
             \E offx \in CenterOffsets, offy \in CenterOffsets :
                \E w \in CompSizes, h \in CompSizes :
                   cin = [z |-> zz, tx |-> tx, ty |-> ty, offx |-> offx,
                          offy |-> offy, w |-> w, h |-> h]
    /\ cmiss = {} /\ canvas = <<>> /\ creq = <<>>
    /\ cbox = <<0, 0, 0, 0>> /\ cout = NoImage

NextComp == Composite
SpecComp == InitComp /\ [][NextComp]_vars

\* ------------------------------------------------------ MapState accesses

\* A thread enters one of its handlers.
AccCall(t) ==
    /\ sop[t] = "none"
    /\ \E h \in HandlersOf(t) : sop' = [sop EXCEPT ![t] = h]
    /\ spos' = [spos EXCEPT ![t] = 1]
    /\ UNCHANGED <<slock, sacc>>
    /\ UNCHANGED offAcc

\* A thread takes the next step of its handler: it enters `with self._lock`
\* when the lock is free, leaves it, or reads or writes a field.
AccStep(t) ==
    /\ sop[t] # "none"
    /\ LET st == Steps(sop[t])[spos[t]]
       IN  /\ st.op = "acquire" => slock = "free"
           /\ slock' = CASE st.op = "acquire" -> t
                          [] st.op = "release" -> "free"
                          [] OTHER -> slock
           /\ sacc' = IF st.op \in {"read", "write"}
                      THEN [by |-> t, field |-> st.field, kind |-> st.op,
                            line |-> st.line, held |-> slock = t]
                      ELSE sacc
    /\ IF spos[t] = Len(Steps(sop[t]))
       THEN /\ sop' = [sop EXCEPT ![t] = "none"]
            /\ spos' = [spos EXCEPT ![t] = 0]
       ELSE /\ spos' = [spos EXCEPT ![t] = spos[t] + 1]
            /\ sop' = sop
    /\ UNCHANGED offAcc

\* The application after AsciiMapApp.__init__: the event loop and the render
\* worker run, no handler has begun.
InitAcc ==
    /\ PipeInit /\ z = MinZoomLevel
    /\ CacheIdle /\ PruneIdle /\ RenderIdle /\ LockIdle /\ CompIdle
    /\ AccIdle

NextAcc == \E t \in AccThreads : AccCall(t) \/ AccStep(t)
SpecAcc == InitAcc /\ [][NextAcc]_vars

\* ------------------------------------------------------ the render backends

\* AsciiBackend.render(img, term_w, term_h, use_color, palette)
RenderAscii ==
    /\ rpc = "call" /\ mode = "ascii"
    /\ rframe' = AsciiRender(rimg, term_w, term_h, use_color, palette)
    /\ rbackend' = "AsciiBackend"
    /\ rpc' = "done"
    /\ UNCHANGED <<mode, rimg, term_w, term_h, use_color, palette>>
    /\ UNCHANGED offRender

\* QuadrantRenderer.render(img, term_w, term_h, use_color, palette)
RenderQuadrant ==
    /\ rpc = "call" /\ mode = "quadrant"
    /\ rframe' = QuadrantRender(rimg, term_w, term_h, use_color, palette)
    /\ rbackend' = "QuadrantRenderer"
    /\ rpc' = "done"
    /\ UNCHANGED <<mode, rimg, term_w, term_h, use_color, palette>>
    /\ UNCHANGED offRender

\* BrailleRenderer.render(img, term_w, term_h, use_color, palette)
RenderBraille ==
    /\ rpc = "call" /\ mode = "braille"
    /\ rframe' = BrailleRender(rimg, term_w, term_h, use_color, palette)
    /\ rbackend' = "BrailleRenderer"
    /\ rpc' = "done"
    /\ UNCHANGED <<mode, rimg, term_w, term_h, use_color, palette>>
    /\ UNCHANGED offRender

\* A backend is called with an image and a positive cell size.
InitRender ==
    /\ PipeInit /\ z = MinZoomLevel
    /\ CacheIdle /\ PruneIdle /\ LockIdle /\ CompIdle /\ AccIdle
    /\ mode \in {"ascii", "quadrant", "braille"}
    /\ \E w \in 1..MaxImgSide, h \in 1..MaxImgSide, shift \in {0, 1} :
          \E cols \in [1..w -> Colors] : rimg = Striped(w, h, cols, shift)
    /\ term_w \in 1..MaxRenderCols /\ term_h \in 1..MaxRenderRows
    /\ use_color \in BOOLEAN
    /\ palette \in PaletteLens
    /\ rpc = "call" /\ rframe = <<>> /\ rbackend = "none"

NextRender == RenderAscii \/ RenderQuadrant \/ RenderBraille
SpecRender == InitRender /\ [][NextRender]_vars

\* ------------------------------------------------------------ the dispatcher

\* Renderer.render(img, term_w, term_h, use_color, mode, palette_name), lines
\* 187-192: look the mode up, fall back to ascii, call the backend.
RendererRender ==
    /\ rpc = "call"
    /\ rbackend' = Dispatch(mode)
    /\ rframe' = BackendRender(Dispatch(mode), rimg, term_w, term_h, use_color,
                               palette)
    /\ rpc' = "done"
    /\ UNCHANGED <<mode, rimg, term_w, term_h, use_color, palette>>
    /\ UNCHANGED offRender

\* The worker calls self.renderer.render with cfg map.mode, whatever string
\* that is.
InitDispatch ==
    /\ PipeInit /\ z = MinZoomLevel
    /\ CacheIdle /\ PruneIdle /\ LockIdle /\ CompIdle /\ AccIdle
    /\ mode \in ModeNames
    /\ \E w \in 1..MaxImgSide, h \in 1..MaxImgSide, shift \in {0, 1} :
          \E cols \in [1..w -> Colors] : rimg = Striped(w, h, cols, shift)
    /\ term_w \in 1..MaxRenderCols /\ term_h \in 1..MaxRenderRows
    /\ use_color \in BOOLEAN
    /\ palette \in PaletteLens \ {0}
    /\ rpc = "call" /\ rframe = <<>> /\ rbackend = "none"

NextDispatch == RendererRender
SpecDispatch == InitDispatch /\ [][NextDispatch]_vars

\* ------------------------------------------------------------------ claims

\* C1: latest-wins.  Every job the worker's get returns is, at that moment,
\* the newest job submitted: a job that a later job was submitted over before
\* the worker dequeued it is never dequeued (so never processed), and the
\* job the worker holds is never one that was cleared from the queue.
C1_LatestWins ==
    /\ dequeued.id = dequeued.latest
    /\ dequeued.id \notin superseded
    /\ wjob.id \notin superseded

\* Job 1 was replaced by job 2 before any get, and the worker is processing 2.
C1_Witness ==
    /\ 1 \in superseded
    /\ dequeued = [id |-> 2, latest |-> 2]
    /\ wpc = "composite" /\ wjob.id = 2

\* C2: before shutdown the inbound slot holds at most one pending job, and a
\* job it holds is the most recently submitted one.
C2_SingleSlot ==
    ~stop => /\ Len(req_q) <= 1
             /\ req_q # <<>> => req_q[1].id = nSubmitted

\* The slot holds job 2, which replaced the unstarted job 1.
C2_Witness ==
    /\ ~stop /\ upc = "idle"
    /\ Len(req_q) = 1 /\ req_q[1].id = 2
    /\ superseded = {1}

\* C3: the outbound slot holds at most one Frame; no post is dropped on a
\* full slot; a Frame in the slot is the one of the newest post, an older
\* unconsumed Frame having been discarded.
C3_OutboundSlot ==
    /\ Len(res_q) <= 1
    /\ "res" \notin dropped
    /\ res_q # <<>> => res_q[1].id = lastPosted
    /\ \A id \in discarded : id < lastPosted \/ wframe.id > id

\* Frame 1 was discarded unconsumed and the slot holds Frame 2.
C3_Witness ==
    /\ discarded = {1}
    /\ Len(res_q) = 1 /\ res_q[1].id = 2 /\ lastPosted = 2

\* The text of row y of a UIContent.
RowText(c, y) == JoinRuns(c.lines[y])

\* The job the last create_content call submitted is the newest submitted
\* job, carries the call's size and the current center and zoom, and is in
\* the inbound slot or with the worker.
SubmittedJobOfCall ==
    /\ ccLog.job.id = nSubmitted /\ ccLog.job.id > 0
    /\ ccLog.job.w = ccLog.w /\ ccLog.job.h = ccLog.h
    /\ ccLog.job.lat = lat /\ ccLog.job.lon = lon /\ ccLog.job.z = z
    /\ \/ req_q = <<ccLog.job>>
       \/ dequeued.id = ccLog.job.id

\* C4: a create_content(width, height) call that finds no Frame (none held,
\* none drained) returns height rows of width spaces each and has submitted
\* one job with that size and the current center and zoom.
C4_BlankAndJob ==
    (upc = "idle" /\ ccLog # NoLog /\ ccLog.held = NoFrame) =>
        /\ content.line_count = ccLog.h
        /\ Len(content.lines) = ccLog.h
        /\ \A y \in 1..ccLog.h : RowText(content, y) = Spaces(ccLog.w)
        /\ SubmittedJobOfCall

\* create_content(2, 1) returned blank while the worker is still compositing
\* the job of an earlier pan or zoom.
C4_Witness ==
    /\ upc = "idle" /\ ccLog # NoLog /\ ccLog.held = NoFrame
    /\ ccLog.w = 2 /\ ccLog.h = 1 /\ content.line_count = 1
    /\ wpc = "composite" /\ wjob.id = 1
    /\ req_q # <<>> /\ req_q[1].id = 2

\* The character the held Frame has at column x of row y, a space outside it.
FrameChar(f, x, y) ==
    IF y <= f.height /\ x <= f.width THEN JoinRuns(f.lines_frag[y])[x] ELSE " "

\* C5: a create_content(width, height) call that holds a Frame returns
\* height rows of width characters: the Frame's rows, cut or padded with
\* spaces to the new size (under the crosshair cell); it has submitted a job
\* of the new size exactly when the Frame's size differs from it.
C5_StaleFrame ==
    (upc = "idle" /\ ccLog # NoLog /\ ccLog.held # NoFrame) =>
        LET f == ccLog.held
            w == ccLog.w
            h == ccLog.h
        IN  /\ content.line_count = h
            /\ Len(content.lines) = h
            /\ \A y \in 1..h :
                  /\ Len(RowText(content, y)) = w
                  /\ \A x \in 1..w :
                        RowText(content, y)[x] =
                            IF <<x - 1, y - 1>> = content.cursor
                            THEN Crosshair ELSE FrameChar(f, x, y)
            /\ (f.width # w \/ f.height # h) => SubmittedJobOfCall
            /\ (f.width = w /\ f.height = h) => ccLog.job = NoneJob

\* A 1x2 Frame of map glyphs is shown in a 2x1 viewport (padded in width, cut
\* in height) and job 2, sized 2x1, is in the inbound slot.
C5_Witness ==
    /\ upc = "idle" /\ ccLog # NoLog
    /\ ccLog.held.id = 1 /\ ccLog.held.width = 1 /\ ccLog.held.height = 2
    /\ ccLog.held.lines_frag[1][1][2] = <<"#">>
    /\ ccLog.w = 2 /\ ccLog.h = 1
    /\ req_q # <<>> /\ req_q[1].id = 2 /\ req_q[1].w = 2 /\ req_q[1].h = 1

\* The call found a Frame of the viewport's size and submitted nothing.
C5_WitnessSameSize ==
    /\ upc = "idle" /\ ccLog # NoLog
    /\ ccLog.held.id = 1 /\ ccLog.held.width = 2 /\ ccLog.held.height = 2
    /\ ccLog.w = 2 /\ ccLog.h = 2 /\ ccLog.job = NoneJob


\* The worker is inside composite_from_tiles or renderer.render.
WorkerBusy == wpc \in {"composite", "render"}

\* C6: no operation of the interactive loop waits for a render.  While the
\* worker is compositing or rendering it holds neither queue mutex, and a
\* call of the interactive loop that has begun can always take its next step
\* unless the worker is inside the two-line critical section of its post,
\* which it leaves with its next step.
C6_NeverWaitsForRender ==
    /\ reqMutex # "worker"
    /\ WorkerBusy => resMutex # "worker"
    /\ (upc \notin {"idle", "closed"} /\ resMutex # "worker") => ENABLED UIBody
    /\ resMutex = "worker" => wpc = "post_clear" /\ ENABLED WorkerPostClear

\* shutdown has returned while the worker is still inside compositing.
C6_Witness ==
    /\ upc = "closed" /\ wpc = "composite"

\* C7: a job whose compositing raised is not given up: the worker holds the
\* black placeholder for it and goes on to render and post its Frame, and
\* the post is not dropped.
C7_FailedCompositeStillPosts ==
    /\ owed # 0 =>
          /\ wjob.id = owed
          /\ wpc \in {"render", "post_lock", "post_clear", "post_put"}
          /\ wimg.black
          /\ wpc # "render" =>
                /\ wframe.id = owed
                /\ wframe.width = wjob.w /\ wframe.height = wjob.h
                /\ Len(wframe.lines_frag) = wjob.h
    /\ "res" \notin dropped

\* The Frame rendered from the black placeholder of job 1 is in the slot.
C7_Witness ==
    /\ owed = 0 /\ lastPosted = 1
    /\ res_q # <<>> /\ res_q[1].id = 1
    /\ res_q[1].lines_frag[1][1][1] = "fg:#000000"

\* C8: the black placeholder has the pixel size computed for the job.
C8_PlaceholderHasComputedSize ==
    (wpc = "render" /\ wimg.black) => wimg.w = wpx[1] /\ wimg.h = wpx[2]

\* C9: no failure while a job is processed ends the worker thread.
C9_WorkerSurvivesFailure == wpc # "crashed"

\* C10: once shutdown has set the stop flag the worker leaves its loop: if it
\* is not rendering it starts no job any more, and in every case it ends.
C10_ShutdownEndsWorker ==
    /\ stop ~> (wpc = "exited")
    /\ [][(stop /\ wpc \in {"loop", "get", "check"})
            => wpc' \in {"loop", "get", "check", "exited"}]_vars

\* shutdown found the worker rendering, and the worker has ended after
\* posting the Frame of that job.
C10_Witness ==
    /\ stop /\ wpc = "exited" /\ lastPosted = 1 /\ upc = "closed"
    /\ res_q # <<>>

\* C11: a get_tile_exact for an index outside the grid of its zoom never gets
\* past the range check, so it touches neither disk nor network: the call
\* returns empty with no file-system operation and no session.get counted,
\* and no file or directory exists for the index afterwards.
C11_OutOfRangeNoIO ==
    /\ (targ # NoTile /\ ~InRange(targ)) => tpc = "enter"
    /\ (tile # NoTile /\ ~InRange(tile)) =>
          /\ dirs = {} /\ files[tile] = NoFile
          /\ tlog.net = 0 /\ tlog.fs = 0
          /\ tret.kind \in {"none", "empty"}

C11_Witness ==
    /\ tcall = "none" /\ tlog.op = "exact" /\ tret.kind = "empty"
    /\ tile = Tile(1, 0, 2)

\* C12: no call of get_tile_exact (or of get_tile_with_overzoom, which calls
\* it) ends with an exception reaching the caller.
C12_NeverPropagates == tret.kind # "raised"

\* C13: when get_tile_with_overzoom(z, x, y, 1) returns and at its start the
\* parent's file was valid, the tile's own file was not, and the fetch of the
\* tile failed, the result is a raster with the width and height of the
\* parent's raster (the native tile size).
C13_OverzoomNativeSize ==
    (/\ tcall = "none" /\ tlog.op = "overzoom"
     /\ tlog.parent0.st = "valid" /\ tlog.file0.st # "valid"
     /\ tlog.fetches = <<[t |-> tile, ok |-> FALSE]>>)
    => /\ tret.kind = "raster"
       /\ tret.img.w = tlog.parent0.img.w
       /\ tret.img.h = tlog.parent0.img.h

C13_Witness ==
    /\ tcall = "none" /\ tlog.op = "overzoom"
    /\ tile = Tile(1, 1, 0)
    /\ tlog.file0 = NoFile /\ tlog.parent0 = ValidFile(Raster(2 * TileSize))
    /\ tlog.fetches = <<[t |-> tile, ok |-> FALSE]>>
    /\ tret = [kind |-> "raster", img |-> Raster(2 * TileSize)]

\* The cache directory as prune found it, and what it held then and holds now.
PruneOrig == [i \in DOMAIN pfiles |-> [pfiles[i] EXCEPT !.there = TRUE]]
PruneStartTotal == SumSizes(PruneOrig, Len(pfiles))
PruneLeftTotal == SumSizes(pfiles, Len(pfiles))
PruneGone == {i \in DOMAIN pfiles : ~pfiles[i].there}

\* C14: when prune(max_bytes, watermark) has run on a directory whose total
\* was above max_bytes, the total left is at most max_bytes * watermark; the
\* unlinked files are a prefix of the files in ascending modification time
\* (they were unlinked oldest first and every file left is at least as new as
\* every unlinked one); and the prefix is the shortest one: without its last
\* file the total would still be above max_bytes * watermark.
C14_PruneOldestPrefix ==
    (ppc = "done" /\ PruneStartTotal > max_bytes) =>
        /\ PruneLeftTotal * 100 <= max_bytes * watermark
        /\ PruneGone = {gone[i] : i \in 1..Len(gone)}
        /\ \A i, j \in 1..Len(gone) :
              i < j => pfiles[gone[i]].mtime <= pfiles[gone[j]].mtime
        /\ \A d \in PruneGone : \A k \in DOMAIN pfiles \ PruneGone :
              pfiles[d].mtime <= pfiles[k].mtime
        /\ gone # <<>> =>
              (PruneLeftTotal + pfiles[gone[Len(gone)]].size) * 100
                  > max_bytes * watermark

C14_Witness ==
    /\ ppc = "done" /\ PruneStartTotal > max_bytes
    /\ Len(pfiles) = 3 /\ gone = <<2, 1>> /\ pfiles[3].there
    /\ pfiles[1].mtime = pfiles[3].mtime

\* C15: every pan and every zoom call (a step of the interactive loop that
\* begins a call other than create_content), whether or not it changes the
\* center or the zoom, goes on to _enqueue with a job that carries the center
\* and zoom as the call left them and the last width and height that
\* create_content saw; and when that _enqueue returns, the request queue holds
\* exactly this one job, still carrying the current center, zoom and size.
C15_PanZoomSubmit ==
    [][ /\ (nOps' = nOps + 1 /\ upc' # "drain") =>
              /\ upc' = "enq_lock"
              /\ uitem' = Job(nSubmitted + 1, last_width, last_height,
                              lat', lon', z')
        /\ (upc = "enq_put" /\ ucont = "idle" /\ upc' = "idle") =>
              /\ req_q' = <<uitem>>
              /\ uitem = Job(nSubmitted', last_width', last_height',
                             lat', lon', z')
      ]_vars

\* A zoom at the upper bound after a create_content of width 2 has left its job.
C15_Witness ==
    /\ upc = "idle" /\ nOps = 2 /\ ccLog = NoLog
    /\ z = MaxZoomLevel /\ last_width = 2
    /\ nSubmitted = 2 /\ superseded = {1}
    /\ req_q = <<Job(2, 2, last_height, lat, lon, MaxZoomLevel)>>

\* C16: in each of the three modes, for a positive cell size (term_w,
\* term_h), the returned frame has exactly term_h rows and the texts of the
\* runs of each row, put together, have exactly term_w glyphs.
C16_RowsAndColumns ==
    rpc = "done" =>
        /\ Len(rframe) = term_h
        /\ \A y \in 1..Len(rframe) : Len(JoinRuns(rframe[y])) = term_w

\* A coloured braille frame of 2 x 2 cells with a row of two runs.
C16_Witness ==
    /\ rpc = "done" /\ mode = "braille" /\ use_color
    /\ term_w = 2 /\ term_h = 2
    /\ Len(rframe) = 2 /\ Len(rframe[1]) = 2

RenderSingleColor ==
    \A y \in 1..rimg.h : \A x \in 1..rimg.w : rimg.pix[y][x] = rimg.pix[1][1]

\* C17: in each of the three modes, with color off and an image of a single
\* colour, every row of the returned frame is exactly one run.
C17_MonochromeOneRun ==
    (rpc = "done" /\ ~use_color /\ RenderSingleColor) =>
        \A y \in 1..Len(rframe) : Len(rframe[y]) = 1

\* A red image rendered by the quadrant backend, color off, two cells wide.
C17_Witness ==
    /\ rpc = "done" /\ mode = "quadrant" /\ ~use_color /\ RenderSingleColor
    /\ rimg.pix[1][1] = <<255, 0, 0>> /\ term_w = 2
    /\ rframe[1] = << <<EmptyStyle, <<QuadGlyph(15), QuadGlyph(15)>> >> >>

\* The positions of the worker between the check of line 140 and the post.
InFlight == {"composite", "render", "post_lock", "post_clear", "post_put"}

\* C18: a job the worker has taken past the stop check stays the worker's job
\* through every step of either thread (submitting and clearing newer jobs
\* included) until the worker posts its Frame, which is then the one Frame
\* in the result queue; the worker's get returns another job only after the
\* Frame of the job it returned before was posted; and every job that
\* reaches compositing has its Frame posted in the end.
C18_NotPreemptible ==
    /\ [][ /\ (wpc \in InFlight /\ wpc # "post_put") =>
                 /\ wjob' = wjob /\ wjob.id # 0
                 /\ wpc' \in InFlight
           /\ (wpc = "post_put" /\ wpc' # "post_put") =>
                 /\ wframe.id = wjob.id
                 /\ res_q' = <<wframe>>
                 /\ lastPosted' = wjob.id
           /\ (dequeued' # dequeued) => lastPosted = dequeued.id
         ]_vars
    /\ \A k \in 1..MaxOps :
          (wpc = "composite" /\ wjob.id = k) ~> (lastPosted = k)

\* Job 1 is being rendered while job 2, submitted after it was taken, waits.
C18_Witness ==
    /\ wpc = "render" /\ wjob.id = 1
    /\ req_q # <<>> /\ req_q[1].id = 2
    /\ dequeued = [id |-> 1, latest |-> 1]

C20_PersistedThenLocal ==
    /\ (tcall = "none" /\ tlog.op = "exact" /\ tlog.net >= 1 /\ tret.kind = "raster") =>
          /\ files[tile] = ValidFile(tret.img)
          /\ persisted
    /\ (tcall = "exact" /\ tlog.persisted0) => tlog.net = 0
    /\ (tcall = "none" /\ tlog.op = "exact" /\ tlog.persisted0) =>
          /\ tret.kind = "raster"
          /\ tlog.file0 = ValidFile(tret.img)
          /\ tlog.net = 0 /\ tlog.fetches = <<>>

\* The second call for a tile whose first call fetched and persisted it.
C20_Witness ==
    /\ tcall = "none" /\ tlog.op = "exact" /\ tlog.persisted0
    /\ nCalls = 2 /\ tret.kind = "raster" /\ tlog.net = 0

\* C21: the steps of get_tile_exact in which an HTTP attempt fails, the one
\* that ends the fetch with a failure included, change no file and no
\* directory; and when a call returns after fetches that all failed,
\* every file is as it was when the call began, except an undecodable file
\* that the call removed before fetching: none was created or rewritten.
C21_FailedFetchKeepsFiles ==
    /\ [][ (tpc = "fetch" /\ tpc' # "persist") =>
              /\ files' = files /\ dirs' = dirs
              /\ tpc' # "fetch" =>
                    tlog'.fetches = Append(tlog.fetches, [t |-> targ, ok |-> FALSE])
         ]_vars
    /\ [] ( ( /\ tcall = "none" /\ tlog.fetches # <<>>
              /\ \A i \in 1..Len(tlog.fetches) : ~tlog.fetches[i].ok ) =>
            \A t \in DOMAIN files :
               \/ files[t] = tlog.files0[t]
               \/ tlog.files0[t] = CorruptFile /\ files[t] = NoFile )

\* An exact call for a tile without a file has failed to fetch it beside the
\* valid file of the parent.
C21_Witness ==
    /\ tcall = "none" /\ tlog.op = "exact" /\ tile.z = 1
    /\ tlog.fetches = <<[t |-> tile, ok |-> FALSE]>>
    /\ tlog.file0 = NoFile /\ files[tile] = NoFile
    /\ files[Parent(tile)].st = "valid"

\* C22 as stated: one get_tile_exact issues at most 1 + retries HTTP
\* attempts; an attempt is followed by another only when it ended with a
\* connection error or a status of {429, 500, 502, 503, 504}; an attempt
\* answered with any other status than 200 is the last one and the lookup
\* ends with empty.
C22_BoundedRetryAsStated ==
    /\ [][ (tpc = "fetch" /\ hget' # hget) => hget.http <= retries ]_vars
    /\ [][ (tpc = "fetch" /\ tpc' = "fetch") => hget'.last \in Transient ]_vars
    /\ [][ (tpc = "fetch" /\ hget'.last \in {"status_other", "retry_after", "redirect"}) =>
              /\ tpc' \notin {"fetch", "persist"}
              /\ tlog'.fetches = Append(tlog.fetches, [t |-> targ, ok |-> FALSE])
         ]_vars

\* C22, amended: for each request of one get_tile_exact (the first, and one
\* more per redirect followed) at most 1 + retries HTTP attempts are made; a
\* request is attempted again only after a connection or read error, a status
\* of {429, 500, 502, 503, 504} or a 413 carrying Retry-After; a new request
\* is made only after a redirect; an attempt answered with any other status
\* than 200 or a redirect is the last one and the lookup ends with empty.
C22_BoundedRetry ==
    /\ [][ (tpc = "fetch" /\ hget' # hget) =>
              /\ hget.natt <= retries
              /\ hget.http < (1 + hget.hops) * (1 + retries)
         ]_vars
    /\ [][ (tpc = "fetch" /\ tpc' = "fetch") =>
              \/ /\ hget'.last \in Reattempted
                 /\ hget'.natt = hget.natt + 1 /\ hget'.hops = hget.hops
              \/ /\ hget'.last = "redirect"
                 /\ hget'.natt = 0 /\ hget'.hops = hget.hops + 1
         ]_vars
    /\ [][ (tpc = "fetch" /\ hget'.last = "status_other") =>
              /\ tpc' \notin {"fetch", "persist"}
              /\ tlog'.fetches = Append(tlog.fetches, [t |-> targ, ok |-> FALSE])
         ]_vars

\* A lookup built with retries = 1 whose request failed twice with a
\* connection error or a forcelist status, and which returned empty.
C22_Witness ==
    /\ tcall = "none" /\ tlog.op = "exact" /\ retries = 1
    /\ hget.last \in Transient /\ tlog.fetches = <<[t |-> tile, ok |-> FALSE]>>
    /\ tret.kind = "empty"

\* C23: a thread between building its URL and the end of its session.get
\* does not hold the cache lock, and two threads can be inside session.get
\* at once.
C23_FetchUnlocked ==
    \A t \in Threads : lpc[t] \in {"url", "get"} => lock # t

\* Two threads are inside session.get for the same index.
C23_Witness == lpc[1] = "get" /\ lpc[2] = "get"

\* C24: the read-then-write sequences on one file are serialized: a thread
\* unlinks (line 106) the file its own decode attempt found undecodable, no
\* other thread having written the file since that attempt; so a file that a
\* thread's save has made valid is never the one another thread removes.
C24_SerializedReadThenWrite ==
    \A t \in Threads : lpc[t] = "unlink" => lfile # "valid"

\* min(levels, z) for the call in progress or the last one.
MaxStep == IF levels < tile.z THEN levels ELSE tile.z

\* An index whose exact lookup gives a raster once the lookup is over.
Available(t) == files[t].st = "valid"

\* C25: get_tile_with_overzoom looks up the index itself first; it goes from
\* one exact lookup to the next only when the former gave nothing, and then
\* to the ancestor one step further up, (z-s, x div 2^s, y div 2^s) with
\* s <= min(levels, z); a raster result comes from the first available of
\* these indices (the index's own raster as it is, nothing above it being
\* fetched or written; an ancestor's, cropped and upscaled), an empty result
\* means none of the 1 + min(levels, z) indices was available; never more
\* than 1 + min(levels, z) exact lookups are made.
C25_OverzoomWalk ==
    /\ [] ( tcall = "overzoom" =>
              /\ targ = Ancestor(tile, ozstep)
              /\ ozstep <= MaxStep
              /\ (ozstep = 0) = (ozpc = "self") )
    /\ [][ (tcall = "overzoom" /\ targ' # targ /\ tcall' = "overzoom") =>
              /\ ozstep' = ozstep + 1
              /\ files'[targ].st # "valid"
         ]_vars
    /\ [] ( (tcall = "none" /\ tlog.op = "overzoom") =>
              /\ ozstep <= MaxStep
              /\ \A s \in 0..(ozstep - 1) : ~Available(Ancestor(tile, s))
              /\ \A t \in DOMAIN files :
                    t.z < tile.z - ozstep =>
                       /\ files[t] = tlog.files0[t]
                       /\ \A i \in 1..Len(tlog.fetches) : tlog.fetches[i].t # t
              /\ tret.kind \in {"raster", "empty"}
              /\ tret.kind = "raster" =>
                    /\ Available(Ancestor(tile, ozstep))
                    /\ tret.img = IF ozstep = 0
                                  THEN files[tile].img
                                  ELSE Overzoom(files[Ancestor(tile, ozstep)].img, tile, ozstep)
              /\ tret.kind = "empty" =>
                    /\ ozstep = MaxStep
                    /\ ~Available(Ancestor(tile, ozstep)) )

\* With levels = 2 at zoom 2, the index and its parent gave nothing and the
\* grandparent's raster was returned, cropped and upscaled.
C25_Witness ==
    /\ tcall = "none" /\ tlog.op = "overzoom" /\ levels = 2 /\ tile.z = 2
    /\ ozstep = 2 /\ tret.kind = "raster"
    /\ ~Available(tile) /\ ~Available(Ancestor(tile, 1))

\* C26: when the sizes of the .png files add up to max_bytes or less, no
\* step of prune removes or changes a file, and prune ends with every file
\* as it was.
C26_PruneNoOpWithinBudget ==
    /\ [][ PruneStartTotal <= max_bytes => pfiles' = pfiles ]_vars
    /\ [] ( (ppc = "done" /\ PruneStartTotal <= max_bytes) =>
              /\ gone = <<>>
              /\ pfiles = PruneOrig )

\* prune has ended on three files that add up to max_bytes exactly.
C26_Witness ==
    /\ ppc = "done" /\ Len(pfiles) = 3 /\ PruneStartTotal = max_bytes
    /\ \A i \in 1..3 : pfiles[i].size > 0 /\ pfiles[i].there

\* The files other than the one whose stat or unlink raised.
PruneRest == DOMAIN pfiles \ {pfault.file}

RECURSIVE SumRest(_, _)
\* sum of st_size over the files of f[1..n] that are there and in PruneRest
SumRest(f, n) ==
    IF n = 0 THEN 0
    ELSE SumRest(f, n - 1) + (IF f[n].there /\ n \in PruneRest THEN f[n].size ELSE 0)

\* C27: prune never raises, and an I/O error on one file, in the sizing, in
\* the ordering or in the deleting, only takes that file out: when the other
\* files add up to more than max_bytes, prune ends with them (oldest first)
\* removed until they add up to max_bytes * watermark or less, or with all of
\* them removed.
C27_PruneBestEffort ==
    /\ ppc # "raised"
    /\ (ppc = "done" /\ SumRest(PruneOrig, Len(pfiles)) > max_bytes) =>
          /\ \/ SumRest(pfiles, Len(pfiles)) * 100 <= max_bytes * watermark
             \/ \A i \in PruneRest : ~pfiles[i].there
          /\ \A i, j \in 1..Len(gone) :
                i < j => pfiles[gone[i]].mtime <= pfiles[gone[j]].mtime

\* C28: composite_from_tiles ends for every size, center, zoom and set of
\* missing indices, with an image of exactly width_px x height_px; a cell
\* whose index the cache has nothing for, or whose row is off the grid, is
\* black, and every other cell holds the raster of its index.
C28_ExactSizeBlackWhereMissing ==
    cpc = "done" =>
       /\ cout.w = cin.w /\ cout.h = cin.h
       /\ \A c \in Cells(cin) :
             LET t == CellIndex(cin, c)
             IN  IF t \in cmiss \/ t \notin Grid(cin.z)
                 THEN canvas[c] = Black
                 ELSE canvas[c] = t

\* A 512 x 257 output at zoom 1, centered on the first pixel of a tile, with
\* one of the four indices missing.
C28_Witness ==
    /\ cpc = "done" /\ cin.z = 1 /\ cin.w = 2 * TileSize /\ cin.h = TileSize + 1
    /\ cin.offx = 0
    /\ Cardinality(cmiss) = 1
    /\ \E c \in Cells(cin) : canvas[c] = Black /\ CellIndex(cin, c) \in cmiss
    /\ cout.w = 2 * TileSize

\* The canvas pixel of the fractional center: where the center tile
\* (int(xt), int(yt)) was pasted, that is cell (tiles_x // 2, tiles_y // 2),
\* plus the offset of the center inside its tile.
CenterOnCanvas(in) ==
    <<(TilesAcross(in.w) \div 2) * TileSize + in.offx,
      (TilesAcross(in.h) \div 2) * TileSize + in.offy>>

\* C29: the crop window is centered on the canvas pixel of the fractional
\* center (the place the center tile was pasted at, plus the offset of the
\* center inside that tile), and it lies inside the canvas.
C29_WindowOnCenterInsideCanvas ==
    cpc = "done" =>
       /\ cbox[1] = IntOfHalf(2 * CenterOnCanvas(cin)[1] - cin.w)
       /\ cbox[2] = IntOfHalf(2 * CenterOnCanvas(cin)[2] - cin.h)
       /\ cbox[3] = cbox[1] + cin.w
       /\ cbox[4] = cbox[2] + cin.h
       /\ 0 <= cbox[1] /\ cbox[3] <= CanvasSize(cin)[1]
       /\ 0 <= cbox[2] /\ cbox[4] <= CanvasSize(cin)[2]

\* C30: every index passed to the cache is in range for the zoom, its x is
\* the column wrapped into [0, 2^z) and its y is the row itself; a row with y
\* outside [0, 2^z) is never requested, wrapped or not.
C30_RequestsInRange ==
    cpc = "done" =>
       \A c \in Cells(cin) :
          LET col == cin.tx - TilesAcross(cin.w) \div 2 + c[1]
              row == cin.ty - TilesAcross(cin.h) \div 2 + c[2]
          IN  /\ creq[c] # NoTile =>
                    /\ InRange(creq[c]) /\ creq[c].z = cin.z
                    /\ creq[c].x = col % Pow2(cin.z) /\ creq[c].y = row
              /\ (row < 0 \/ row >= Pow2(cin.z)) => creq[c] = NoTile
              /\ (0 <= row /\ row < Pow2(cin.z)) => creq[c] # NoTile

\* A call at zoom 1 whose canvas has a column left of the grid and one right
\* of it, both requested wrapped, and rows above and below the grid, skipped.
C30_Witness ==
    /\ cpc = "done" /\ cin.z = 1
    /\ \E c \in Cells(cin) :
          /\ cin.tx - TilesAcross(cin.w) \div 2 + c[1] < 0
          /\ creq[c] # NoTile /\ creq[c].x = 1
    /\ \E c \in Cells(cin) :
          /\ cin.tx - TilesAcross(cin.w) \div 2 + c[1] >= 2
          /\ creq[c] # NoTile
    /\ \E c \in Cells(cin) :
          cin.ty - TilesAcross(cin.h) \div 2 + c[2] < 0 /\ creq[c] = NoTile
    /\ \E c \in Cells(cin) :
          cin.ty - TilesAcross(cin.h) \div 2 + c[2] >= 2 /\ creq[c] = NoTile

\* C31: the dispatcher the application builds resolves "ascii", "quadrant"
\* and "braille" to three different backends, the ascii, the 2x2 quadrant and
\* the 2x4 braille one; only another mode name falls back to ascii.
C31_ThreeBackends ==
    rpc = "done" =>
       /\ mode = "ascii" => rbackend = "AsciiBackend"
       /\ mode = "quadrant" => rbackend = "QuadrantRenderer"
       /\ mode = "braille" => rbackend = "BrailleRenderer"
       /\ mode \notin {"ascii", "quadrant", "braille"} => rbackend = "AsciiBackend"

\* The glyph with the least ink of each backend: the first character of the
\* ramp, the block element with no quadrant set, the Braille cell with no dot.
SparsestGlyph(b) ==
    CASE b = "AsciiBackend" -> PaletteGlyph(0)
      [] b = "QuadrantRenderer" -> QuadGlyph(0)
      [] b = "BrailleRenderer" -> BrailleGlyph(0)

\* The image handed in is black all over: every tile unavailable, or the
\* placeholder of the worker's handler.
RenderAllBlack ==
    \A y \in 1..rimg.h : \A x \in 1..rimg.w : rimg.pix[y][x] = <<0, 0, 0>>

\* C32: a black image gives a whole frame, term_h rows of term_w glyphs, and
\* every glyph of it is the sparsest one of the backend that ran.
C32_BlackGivesSparsestFrame ==
    (rpc = "done" /\ RenderAllBlack) =>
        /\ Len(rframe) = term_h
        /\ \A y \in 1..Len(rframe) :
              /\ Len(JoinRuns(rframe[y])) = term_w
              /\ \A x \in 1..Len(JoinRuns(rframe[y])) :
                    JoinRuns(rframe[y])[x] = SparsestGlyph(rbackend)

\* C33, as stated: the pixel size asked of the compositor for a job of cell
\* size (w, h) is (w * 8, h * 16), for every w, h >= 1.
C33_PxSizeAsStated ==
    wpc = "composite" => wpx = <<wjob.w * PxPerCol, wjob.h * PxPerRow>>

\* w * 8 and h * 16 brought into 64 .. max_composite_px
Clamped(px) ==
    IF px < MinPx THEN MinPx
    ELSE IF px > DefaultMaxCompositePx THEN DefaultMaxCompositePx ELSE px

\* C33: the pixel size asked of the compositor is (w * 8, h * 16) with each
\* side raised to 64 and cut to max_composite_px; it is (w * 8, h * 16)
\* itself whenever both products lie in 64 .. max_composite_px.
C33_PxSizeClamped ==
    wpc = "composite" =>
       /\ wpx = <<Clamped(wjob.w * PxPerCol), Clamped(wjob.h * PxPerRow)>>
       /\ (/\ MinPx <= wjob.w * PxPerCol /\ wjob.w * PxPerCol <= DefaultMaxCompositePx
           /\ MinPx <= wjob.h * PxPerRow /\ wjob.h * PxPerRow <= DefaultMaxCompositePx)
          => wpx = <<wjob.w * PxPerCol, wjob.h * PxPerRow>>

\* A job of 1 x 80 cells: 8 px is raised to 64, 1280 px cut to 1200.
C33_Witness ==
    /\ wpc = "composite" /\ wjob.w = 1 /\ wjob.h = MaxPxRows
    /\ wpx = <<MinPx, DefaultMaxCompositePx>>

\* The fields of the state object that both threads use.
CrossThreadFields ==
    {"lat", "lon", "z", "heading_deg", "info_msg", "last_render_ms"}

\* C34: every read and every write of a cross-thread field of the state
\* object, by the interactive loop or by the worker, is made by a thread that
\* holds the state's mutex.
C34_AccessesHoldLock ==
    sacc.field \in CrossThreadFields => sacc.held

\* lat within the Web-Mercator band, lon in [-180, 180), z within the levels.
InBounds(la, lo, zz) ==
    /\ -MAX_LAT <= la /\ la <= MAX_LAT
    /\ -HalfTurn <= lo /\ lo < HalfTurn
    /\ MinZoomLevel <= zz /\ zz <= MaxZoomLevel

\* C35: after construction and after any pan, zoom, set_center, set_zoom and
\* zoom_delta calls the state's lat is within the band, its lon in
\* [-180, 180) and its z within [min_zoom, max_zoom]; every job in the
\* inbound slot carries such values and w, h >= 1.
C35_CenterAndZoomInBounds ==
    /\ InBounds(lat, lon, z)
    /\ \A i \in 1..Len(req_q) :
          /\ InBounds(req_q[i].lat, req_q[i].lon, req_q[i].z)
          /\ req_q[i].w >= 1 /\ req_q[i].h >= 1

\* C36: during and after a get_tile_with_overzoom call for an index outside
\* the grid of its zoom, every index looked up (the index itself and each
\* ancestor (x div 2^s, y div 2^s) at zoom z-s) is outside the grid of its
\* own zoom, no lookup gets past the range check, no file-system operation
\* and no session.get is made, no file or directory changes, and the call
\* returns empty.
C36_OutOfRangeOverzoomNoIO ==
    (tlog.op = "overzoom" /\ ~InRange(tile)) =>
       /\ targ # NoTile => (~InRange(targ) /\ tpc = "enter")
       /\ tlog.fs = 0 /\ tlog.net = 0 /\ tlog.fetches = <<>>
       /\ files = tlog.files0
       /\ dirs = {<<t.z, t.x>> : t \in {u \in DOMAIN files : files[u] # NoFile}}
       /\ tcall = "none" => tret.kind = "empty"

\* A call with overzoom_levels = 2 for the index (-1, 4) of zoom 2, outside
\* the grid on both axes, has gone through the range checks of the index,
\* its parent and its grandparent, whose name has a valid file, and has
\* returned empty.
C36_Witness ==
    /\ tcall = "none" /\ tlog.op = "overzoom" /\ tile = Tile(2, -1, 4)
    /\ levels = 2 /\ ozstep = 2 /\ tret.kind = "empty"
    /\ files[Ancestor(tile, 2)].st = "valid"

\* C37: the worker completes Frames in the order of their ids (each post
\* carries a higher id than the post before), the Frame the consumer holds
\* is one the worker has completed, and whenever the held Frame changes, the
\* new one has a higher id than the one held before: it was completed later.
C37_AdoptedInCompletionOrder ==
    /\ [][ lastPosted' # lastPosted => lastPosted' > lastPosted ]_vars
    /\ [] ( last_frame.id <= lastPosted )
    /\ [][ last_frame' # last_frame => last_frame'.id > last_frame.id ]_vars

\* The consumer held the Frame of job 1, adopted the Frame of job 2, and now
\* holds the Frame of job 3 while the outbound slot is empty again.
C37_Witness ==
    /\ last_frame.id = 3 /\ lastPosted = 3 /\ res_q = <<>> /\ nOps = 2
    /\ upc = "idle"

\* The consumer holds the Frame of the last submitted job, of the size of
\* the viewport, and the inbound slot is empty.
Converged ==
    /\ last_frame.id = nSubmitted
    /\ last_frame.width = last_width /\ last_frame.height = last_height
    /\ req_q = <<>>

\* C38: in a session with fair scheduling, ending renders and a repaint after
\* each invalidate, once the pans, zooms and size changes are over there is
\* a point from which on, if any job was ever submitted, the consumer holds
\* the Frame of the last submitted job with the cell size of the viewport,
\* the inbound slot is empty and no job is submitted any more.
C38_Convergence ==
    /\ <>[] (nSubmitted > 0 => Converged)
    /\ <>[][ nSubmitted' = nSubmitted ]_vars

\* C39: with several threads in get_tile_exact for one index, no step
\* removes the file while it is the valid file that a call's save (line 116)
\* has written.
C39_PersistedNeverEvicted ==
    [][ (lfile = "valid" /\ lwriter # 0) => lfile' = "valid" ]_vars

\* C40: while the stop flag is set the worker takes up no job: no step
\* brings it into compositing, a job it holds at the check of line 140 is
\* dropped there (the worker leaves with no Frame made and nothing posted),
\* and a worker that has left stays away, so a job submitted after shutdown
\* stays in the inbound slot or is dropped at the check.
C40_NoJobStartedAfterStop ==
    /\ [][ (stop /\ wpc' = "composite") => wpc = "composite" ]_vars
    /\ [][ (stop /\ wpc = "check" /\ wpc' # "check") =>
              /\ wpc' = "exited" /\ wframe' = NoFrame
              /\ lastPosted' = lastPosted /\ res_q' = res_q ]_vars
    /\ [][ wpc = "exited" => wpc' = "exited" ]_vars

\* A job submitted after shutdown was dequeued by the worker, which was still
\* waiting in get, and dropped at the check: the worker has left, and the
\* last Frame posted is that of an earlier job.
C40_Witness ==
    /\ stop /\ wpc = "exited" /\ wjob # NoneJob
    /\ dequeued.id = nSubmitted /\ nSubmitted = 2 /\ lastPosted = 1
    /\ nOps = MaxOps

====
